---------------------------- MODULE Spec2Model ----------------------------
(***************************************************************************)
(* A model of the AgenticFlow execution engine: MasterAgent (the LangGraph *)
(* of task_planner, the five execute_* nodes, next_step and                *)
(* format_response), the five capability agents and their tools, the task  *)
(* planner's post-processing, and the chat entry point that drives them.   *)
(* Texts are TLA+ strings, built and searched the way the Python code      *)
(* builds and searches them.                                               *)
(***************************************************************************)
EXTENDS Integers, Sequences, FiniteSets, TLC

(***************************************************************************)
(* Bounds of the model.                                                    *)
(***************************************************************************)
\* longest step list the planning service returns
MaxSteps == 2

(***************************************************************************)
(* Text helpers (Python str operations).                                   *)
(***************************************************************************)
\* Python's None, and a dict key that is absent
None == "<None>"
Missing == "<missing>"

\* sub in s
Contains(s, sub) ==
    \E i \in 1..(Len(s) - Len(sub) + 1) : SubSeq(s, i, i + Len(sub) - 1) = sub

StartsWith(s, p) == Len(s) >= Len(p) /\ SubSeq(s, 1, Len(p)) = p

EndsWith(s, p) == Len(s) >= Len(p) /\ SubSeq(s, Len(s) - Len(p) + 1, Len(s)) = p

IsSpace(c) == c \in {" ", "\n", "\t"}

RECURSIVE LStrip(_)
LStrip(s) ==
    IF Len(s) > 0 /\ IsSpace(SubSeq(s, 1, 1)) THEN LStrip(SubSeq(s, 2, Len(s))) ELSE s

RECURSIVE RStrip(_)
RStrip(s) ==
    IF Len(s) > 0 /\ IsSpace(SubSeq(s, Len(s), Len(s)))
    THEN RStrip(SubSeq(s, 1, Len(s) - 1)) ELSE s

\* s.strip()
Strip(s) == LStrip(RStrip(s))

\* re.sub(r'\s+', '', s)
RECURSIVE RemoveSpaces(_)
RemoveSpaces(s) ==
    IF Len(s) = 0 THEN s
    ELSE IF IsSpace(SubSeq(s, 1, 1)) THEN RemoveSpaces(SubSeq(s, 2, Len(s)))
    ELSE SubSeq(s, 1, 1) \o RemoveSpaces(SubSeq(s, 2, Len(s)))

Upper == "ABCDEFGHIJKLMNOPQRSTUVWXYZ"
Lower == "abcdefghijklmnopqrstuvwxyz"

LowerChar(c) ==
    IF \E i \in 1..Len(Upper) : SubSeq(Upper, i, i) = c
    THEN LET i == CHOOSE j \in 1..Len(Upper) : SubSeq(Upper, j, j) = c
         IN SubSeq(Lower, i, i)
    ELSE c

\* s.lower()
RECURSIVE ToLower(_)
ToLower(s) ==
    IF Len(s) = 0 THEN s
    ELSE LowerChar(SubSeq(s, 1, 1)) \o ToLower(SubSeq(s, 2, Len(s)))

\* dict.get(key, default) on a field that may be absent
Get(v, default) == IF v = Missing THEN default ELSE v

\* not x, for a Python str or None
Falsy(x) == x = "" \/ x = None

Range(f) == {f[i] : i \in DOMAIN f}

VARIABLES
    pc,                  \* where the request is: the graph node about to run
    query,               \* AgentState.query
    document,            \* AgentState.document
    steps,               \* AgentState.steps
    current_step_index,  \* AgentState.current_step_index
    results,             \* AgentState.results
    failed_steps,        \* AgentState.failed_steps
    final_response,      \* AgentState.final_response
    reply,               \* what chat_fn returned to the user
    memory,              \* ShortTermMemory.history
    facts,               \* LongTermMemory: the stored facts
    rag_chunks,          \* RAGMemory: whether the collection holds chunks
    session_namespace,   \* CodeAgent.session_namespace
    code_log,            \* history: what each call of CodeAgent.run did, in order
    peer,                \* the other execution on this MasterAgent, while it is not running
    memory_arg,          \* whether MasterAgent was constructed with a memory
    long_memory_arg,     \* whether MasterAgent was constructed with a long_memory
    exception,           \* the exception on its way out of the graph, or None
    planned,             \* history: the steps TaskPlannerAgent.run returned
    service_reply,       \* history: what the planning service's completion parsed to
    faulted,             \* history: the steps in whose handler a service call raised
    requests,            \* history: the service calls each handler run made
    visited              \* history: the graph nodes run, with the step index

vars == <<pc, query, document, steps, current_step_index, results, failed_steps,
          final_response, reply, memory, facts, rag_chunks, session_namespace,
          memory_arg, long_memory_arg, exception, planned, service_reply, faulted, requests,
          visited,
          code_log, peer>>


(***************************************************************************)
(* What the outside world supplies: the user's requests, the planning      *)
(* service's replies and the faults of the external services.              *)
(***************************************************************************)
\* the messages a user sends
Messages == {"", "add 2 and 2"}

\* the text chat_fn extracts from the attached file ("" when none is attached)
Documents == {"", "a long document"}

\* the (tool, input) pairs the planning service puts in its step lists
StepKinds ==
    {[tool |-> "calculator", input |-> i] : i \in {"", "2+2", "1/0"}}
    \cup {[tool |-> "code_executor", input |-> i] : i \in {"", "print(1)", "pr int(1)"}}
    \cup {[tool |-> "web_search", input |-> i] : i \in {"", "ai news"}}
    \cup {[tool |-> "summarizer", input |-> i] : i \in {"", "document"}}
    \cup {[tool |-> "llm", input |-> i] : i \in {"", "hi", "the report"}}
    \cup {[tool |-> t, input |-> "hi"] : t \in {"", "translator", Missing}}

RECURSIVE SeqsUpTo(_, _)
SeqsUpTo(S, n) ==
    IF n = 0 THEN {<<>>}
    ELSE LET shorter == SeqsUpTo(S, n - 1)
         IN shorter \cup {Append(q, x) : q \in {r \in shorter : Len(r) = n - 1}, x \in S}

\* what the planning service's completion parses to: a step list (possibly
\* empty), something that is no step list, or the call raises
PlannerReplies ==
    {[kind |-> "steps", steps |-> q] : q \in SeqsUpTo(StepKinds, MaxSteps)}
    \cup {[kind |-> "other", steps |-> <<>>], [kind |-> "raise", steps |-> <<>>]}

\* the exceptions a call of an external service raises
NetworkFault == "Connection error."
RateLimitFault == "429 Rate limit reached, try again in 7s"
ServiceFaults == {NetworkFault, RateLimitFault}

(***************************************************************************)
(* TaskPlannerAgent                                                        *)
(***************************************************************************)
\* the markdown code fence (three backquotes; written with tildes here, the
\* backquote being no character of a TLA+ string)
Fence == "~~~"

\* TaskPlannerAgent._extract_code: the content of a fenced block (an optional
\* "python" tag dropped), or the text itself when it holds no fenced block
_extract_code(text) ==
    IF Len(text) >= 2 * Len(Fence) /\ StartsWith(text, Fence) /\ EndsWith(text, Fence)
    THEN LET inner == SubSeq(text, Len(Fence) + 1, Len(text) - Len(Fence))
         IN Strip(IF StartsWith(inner, "python")
                  THEN SubSeq(inner, Len("python") + 1, Len(inner)) ELSE inner)
    ELSE text

RagQaWords ==
    {"document", "analytics", "content", "file", "report", "paper", "summary",
     "describe", "explain"}

\* the texts of a list put one after the other, nothing between them
RECURSIVE Concatenate(_, _)
Concatenate(sep, q) == IF Len(q) = 0 THEN "" ELSE q[1] \o Concatenate(sep, Tail(q))

RECURSIVE Join(_, _)
Join(sep, q) ==
    IF Len(q) = 0 THEN ""
    ELSE IF Len(q) = 1 THEN q[1]
    ELSE q[1] \o sep \o Join(sep, Tail(q))

IsCalculator(s) == Get(s.tool, None) = "calculator"

\* the step list after the planner's post-processing: code inputs unfenced,
\* document questions flagged, several calculator steps merged into one
PostProcess(raw) ==
    LET coded == [i \in DOMAIN raw |->
                    IF Get(raw[i].tool, None) = "code_executor"
                    THEN [raw[i] EXCEPT !.input = _extract_code(raw[i].input)]
                    ELSE raw[i]]
        flagged == [i \in DOMAIN coded |->
                      [tool |-> coded[i].tool, input |-> coded[i].input,
                       rag_qa |-> /\ Get(coded[i].tool, None) = "llm"
                                  /\ \E w \in RagQaWords : Contains(ToLower(coded[i].input), w)]]
        calc_steps == SelectSeq(flagged, IsCalculator)
        merged_expr == Join(" ; ", [i \in DOMAIN calc_steps |-> calc_steps[i].input])
    IN  IF Len(calc_steps) > 1
        THEN Append(SelectSeq(flagged, LAMBDA s : ~IsCalculator(s)),
                    [tool |-> "calculator", input |-> merged_expr, rag_qa |-> FALSE])
        ELSE flagged

\* TaskPlannerAgent.run: the steps it returns for a query and a service reply
TaskPlannerRun(q, r) ==
    IF Falsy(q) THEN <<>>
    ELSE IF r.kind = "steps" THEN PostProcess(r.steps)
    ELSE <<[tool |-> "llm", input |-> q, rag_qa |-> FALSE]>>

(***************************************************************************)
(* ShortTermMemory                                                         *)
(***************************************************************************)
\* s.replace(old, "")
RECURSIVE Remove(_, _)
Remove(s, old) ==
    IF Len(s) = 0 THEN s
    ELSE IF StartsWith(s, old) THEN Remove(SubSeq(s, Len(old) + 1, Len(s)), old)
    ELSE SubSeq(s, 1, 1) \o Remove(SubSeq(s, 2, Len(s)), old)

\* s[s.find(sub):]
RECURSIVE FromFirst(_, _)
FromFirst(s, sub) ==
    IF StartsWith(s, sub) \/ Len(s) = 0 THEN s ELSE FromFirst(SubSeq(s, 2, Len(s)), sub)

SummaryMark == "Document Summary:"

\* how many turns CalculatorTool.run asks get_recent for
RecentTurns == 5

\* ShortTermMemory.get_recent(n): the last n turns as "User: ..." / "AI: ..." lines
get_recent(history, n) ==
    LET recent == IF Len(history) > n
                  THEN SubSeq(history, Len(history) - n + 1, Len(history)) ELSE history
        AiLine(ai) ==
            LET ai_clean == Strip(ai)
            IN  IF Contains(ai_clean, SummaryMark)
                THEN "AI: Document Summary - "
                     \o Strip(Remove(FromFirst(ai_clean, SummaryMark), SummaryMark))
                ELSE "AI: " \o ai_clean
    IN  Join("\n", [i \in 1..(2 * Len(recent)) |->
                      IF i % 2 = 1 THEN "User: " \o recent[(i + 1) \div 2][1]
                      ELSE AiLine(recent[i \div 2][2])])

(***************************************************************************)
(* CalculatorTool                                                          *)
(***************************************************************************)
Digits == "0123456789"

IsDigit(c) == \E i \in 1..Len(Digits) : SubSeq(Digits, i, i) = c

DigitValue(c) == (CHOOSE i \in 1..Len(Digits) : SubSeq(Digits, i, i) = c) - 1

IsDigits(s) == Len(s) > 0 /\ \A i \in 1..Len(s) : IsDigit(SubSeq(s, i, i))

RECURSIVE ToInt(_)
ToInt(s) ==
    IF Len(s) = 0 THEN 0
    ELSE 10 * ToInt(SubSeq(s, 1, Len(s) - 1)) + DigitValue(SubSeq(s, Len(s), Len(s)))

RECURSIVE NatToStr(_)
NatToStr(n) ==
    IF n < 10 THEN SubSeq(Digits, n + 1, n + 1)
    ELSE NatToStr(n \div 10) \o SubSeq(Digits, (n % 10) + 1, (n % 10) + 1)

IntToStr(n) == IF n < 0 THEN "-" \o NatToStr(0 - n) ELSE NatToStr(n)

\* s.split('\n')
RECURSIVE SplitLines(_)
SplitLines(s) ==
    IF ~Contains(s, "\n") THEN <<s>>
    ELSE LET i == CHOOSE j \in 1..Len(s) :
                      SubSeq(s, j, j) = "\n" /\ \A k \in 1..(j - 1) : SubSeq(s, k, k) # "\n"
         IN <<SubSeq(s, 1, i - 1)>> \o SplitLines(SubSeq(s, i + 1, Len(s)))

\* the longest run of digits at the front of s
RECURSIVE DigitRun(_)
DigitRun(s) ==
    IF Len(s) > 0 /\ IsDigit(SubSeq(s, 1, 1))
    THEN SubSeq(s, 1, 1) \o DigitRun(SubSeq(s, 2, Len(s))) ELSE ""

\* the match of [-]?\d+\.?\d* at the front of s, "" when there is none
NumberAt(s) ==
    LET neg == StartsWith(s, "-")
        body == IF neg THEN SubSeq(s, 2, Len(s)) ELSE s
        whole == DigitRun(body)
        rest == SubSeq(body, Len(whole) + 1, Len(body))
        frac == IF StartsWith(rest, ".") THEN "." \o DigitRun(SubSeq(rest, 2, Len(rest))) ELSE ""
    IN  IF whole = "" THEN "" ELSE (IF neg THEN "-" ELSE "") \o whole \o frac

\* re.search(r'[-]?\d+\.?\d*', s).group(0), "" when nothing matches
RECURSIVE FirstNumber(_)
FirstNumber(s) ==
    IF Len(s) = 0 THEN ""
    ELSE IF NumberAt(s) # "" THEN NumberAt(s)
    ELSE FirstNumber(SubSeq(s, 2, Len(s)))

\* s.replace(old, new)
RECURSIVE Replace(_, _, _)
Replace(s, old, new) ==
    IF Len(s) = 0 THEN s
    ELSE IF StartsWith(s, old) THEN new \o Replace(SubSeq(s, Len(old) + 1, Len(s)), old, new)
    ELSE SubSeq(s, 1, 1) \o Replace(SubSeq(s, 2, Len(s)), old, new)

\* re.sub(first + r'\s+' + second, new, s)
RECURSIVE ReplaceSpaced(_, _, _, _)
ReplaceSpaced(s, first, second, new) ==
    IF Len(s) = 0 THEN s
    ELSE LET after == SubSeq(s, Len(first) + 1, Len(s))
             gap == LStrip(after)
         IN  IF StartsWith(s, first) /\ Len(gap) < Len(after) /\ StartsWith(gap, second)
             THEN new \o ReplaceSpaced(SubSeq(gap, Len(second) + 1, Len(gap)), first, second, new)
             ELSE SubSeq(s, 1, 1) \o ReplaceSpaced(SubSeq(s, 2, Len(s)), first, second, new)

\* re.sub(word, new, s, flags=re.IGNORECASE)
RECURSIVE ReplaceIgnoreCase(_, _, _)
ReplaceIgnoreCase(s, word, new) ==
    IF Len(s) = 0 THEN s
    ELSE IF Len(s) >= Len(word) /\ ToLower(SubSeq(s, 1, Len(word))) = word
    THEN new \o ReplaceIgnoreCase(SubSeq(s, Len(word) + 1, Len(s)), word, new)
    ELSE SubSeq(s, 1, 1) \o ReplaceIgnoreCase(SubSeq(s, 2, Len(s)), word, new)

\* the decimal places of the calculator's float format
FloatPlaces == 6

RECURSIVE Pow10(_)
Pow10(n) == IF n = 0 THEN 1 ELSE 10 * Pow10(n - 1)

\* s.rstrip('0')
RECURSIVE RStripZeros(_)
RStripZeros(s) ==
    IF Len(s) > 0 /\ SubSeq(s, Len(s), Len(s)) = "0"
    THEN RStripZeros(SubSeq(s, 1, Len(s) - 1)) ELSE s

\* s.zfill(n)
RECURSIVE ZFill(_, _)
ZFill(s, n) == IF Len(s) >= n THEN s ELSE ZFill("0" \o s, n)

\* floor(r * 10^n / b) and the remainder, by long division, for 0 <= r < b
RECURSIVE LongDivide(_, _, _)
LongDivide(r, b, n) ==
    IF n = 0 THEN [q |-> 0, r |-> r]
    ELSE LET p == LongDivide(r, b, n - 1)
         IN  [q |-> 10 * p.q + ((10 * p.r) \div b), r |-> (10 * p.r) % b]

\* the float format without the stripping: always six decimal places
FormatQuotientUntrimmed(a, b) ==
    LET m == IF a < 0 THEN 0 - a ELSE a
        d == LongDivide(m % b, b, FloatPlaces)
        up == 2 * d.r > b \/ (2 * d.r = b /\ d.q % 2 = 1)
        scaled == (m \div b) * Pow10(FloatPlaces) + d.q + (IF up THEN 1 ELSE 0)
    IN  (IF a < 0 THEN "-" ELSE "") \o NatToStr(scaled \div Pow10(FloatPlaces))
        \o "." \o ZFill(NatToStr(scaled % Pow10(FloatPlaces)), FloatPlaces)

\* f"{a / b:.6f}".rstrip('0').rstrip('.') for an integer a and a natural b > 0
\* (the value nearest to a / b with six decimal places; of two equally near
\* ones the even one, which is what the format gives when a / b is a binary
\* fraction, 1/128 for one; the expressions evaluated here meet no other tie)
FormatQuotient(a, b) ==
    LET m == IF a < 0 THEN 0 - a ELSE a
        d == LongDivide(m % b, b, FloatPlaces)
        up == 2 * d.r > b \/ (2 * d.r = b /\ d.q % 2 = 1)
        scaled == (m \div b) * Pow10(FloatPlaces) + d.q + (IF up THEN 1 ELSE 0)
        fixed == (IF a < 0 THEN "-" ELSE "") \o NatToStr(scaled \div Pow10(FloatPlaces))
                 \o "." \o ZFill(NatToStr(scaled % Pow10(FloatPlaces)), FloatPlaces)
        trimmed == RStripZeros(fixed)
    IN  IF EndsWith(trimmed, ".") THEN SubSeq(trimmed, 1, Len(trimmed) - 1) ELSE trimmed

Operators == {"+", "-", "*", "/"}

\* the positions of the decimal points of s
Points(s) == {i \in 1..Len(s) : SubSeq(s, i, i) = "."}

\* a Python number literal without exponent: an integer (no leading zero
\* unless it is all zeros) or digits with one decimal point.  Its value is
\* the fraction num / den
Literal(s) ==
    LET bad == [ok |-> FALSE, num |-> 0, den |-> 1, float |-> FALSE]
    IN  IF IsDigits(s)
        THEN IF Len(s) > 1 /\ SubSeq(s, 1, 1) = "0" /\ ToInt(s) # 0 THEN bad
             ELSE [ok |-> TRUE, num |-> ToInt(s), den |-> 1, float |-> FALSE]
        ELSE IF Cardinality(Points(s)) # 1 THEN bad
        ELSE LET p == CHOOSE i \in Points(s) : TRUE
                 whole == SubSeq(s, 1, p - 1)
                 frac == SubSeq(s, p + 1, Len(s))
             IN  IF /\ whole = "" \/ IsDigits(whole)
                    /\ frac = "" \/ IsDigits(frac)
                    /\ Len(s) > 1
                 THEN [ok |-> TRUE, num |-> ToInt(whole \o frac), den |-> Pow10(Len(frac)),
                       float |-> TRUE]
                 ELSE bad

\* a literal with at most one sign in front
Operand(s) ==
    IF Len(s) > 0 /\ SubSeq(s, 1, 1) \in {"+", "-"}
    THEN LET v == Literal(SubSeq(s, 2, Len(s)))
         IN  IF SubSeq(s, 1, 1) = "-" THEN [v EXCEPT !.num = 0 - v.num] ELSE v
    ELSE Literal(s)

\* str(result) of an int, the float format of a float
FormatValue(v) == IF v.float THEN FormatQuotient(v.num, v.den) ELSE IntToStr(v.num)

\* a + b (sign = 1) or a - b (sign = -1) of two operand values
Sum(a, b, sign) ==
    LET den == IF a.den > b.den THEN a.den ELSE b.den
    IN  [num |-> a.num * (den \div a.den) + sign * b.num * (den \div b.den), den |-> den,
         float |-> a.float \/ b.float]

Product(a, b) ==
    [num |-> a.num * b.num, den |-> a.den * b.den, float |-> a.float \/ b.float]

\* the value of a op b formatted, or the exception's message
Apply(op, a, b) ==
    IF op = "+" THEN [ok |-> TRUE, text |-> FormatValue(Sum(a, b, 1))]
    ELSE IF op = "-" THEN [ok |-> TRUE, text |-> FormatValue(Sum(a, b, -1))]
    ELSE IF op = "*" THEN [ok |-> TRUE, text |-> FormatValue(Product(a, b))]
    ELSE IF b.num = 0
    THEN [ok |-> FALSE,
          text |-> IF a.float \/ b.float THEN "float division by zero"
                   ELSE "division by zero"]
    ELSE IF b.num < 0
    THEN [ok |-> TRUE, text |-> FormatQuotient((0 - a.num) * b.den, a.den * (0 - b.num))]
    ELSE [ok |-> TRUE, text |-> FormatQuotient(a.num * b.den, a.den * b.num)]

\* where e splits into an operand, an operator and an operand
Cuts(e) ==
    {i \in 2..(Len(e) - 1) :
        /\ SubSeq(e, i, i) \in Operators
        /\ Operand(SubSeq(e, 1, i - 1)).ok
        /\ Operand(SubSeq(e, i + 1, Len(e))).ok}

\* Python's eval of an expression and the formatting of its value: the name
\* inf, one operand, or two operands joined by one operator; anything else
\* does not evaluate.  [ok, text]: the formatted value, or the exception's
\* message
PyEval(e) ==
    \* math's inf among allowed_names; the float format prints its value "inf"
    IF e = "inf" THEN [ok |-> TRUE, text |-> "inf"]
    ELSE IF Operand(e).ok THEN [ok |-> TRUE, text |-> FormatValue(Operand(e))]
    ELSE IF Cuts(e) = {} THEN [ok |-> FALSE, text |-> "invalid syntax"]
    ELSE LET i == CHOOSE j \in Cuts(e) : TRUE
         IN  Apply(SubSeq(e, i, i), Operand(SubSeq(e, 1, i - 1)),
                   Operand(SubSeq(e, i + 1, Len(e))))

CalculatorErrorMark == "Calculator error: "

\* CalculatorTool._evaluate_expression: the result text
_evaluate_expression(expression) ==
    LET e1 == RemoveSpaces(Strip(expression))
        e2 == ReplaceIgnoreCase(e1, "add", "+")
        e3 == ReplaceIgnoreCase(e2, "subtract", "-")
        e4 == ReplaceIgnoreCase(e3, "multiply", "*")
        e5 == ReplaceIgnoreCase(e4, "divide", "/")
        v == PyEval(e5)
    IN  IF v.ok THEN e5 \o " = " \o v.text ELSE CalculatorErrorMark \o v.text

ContextWords == {"previous", "last", "result", "answer"}

IsCandidateLine(line) ==
    /\ Contains(line, "AI:")
    /\ \/ Contains(line, "Calculator Result:")
       \/ Contains(line, "Final Result:")
       \/ Contains(line, "=")
    /\ FirstNumber(line) # ""

\* CalculatorTool.run replacing the bare words before the two-word phrases
CalculatorToolRunBareWordsFirst(expression, has_memory, history) ==
    LET recent_memory == get_recent(history, RecentTurns)
        lines == SplitLines(recent_memory)
        hits == {i \in DOMAIN lines : IsCandidateLine(lines[i])}
    IN  IF /\ \E w \in ContextWords : Contains(ToLower(expression), w)
           /\ has_memory
           /\ recent_memory # ""
           /\ hits # {}
        THEN LET line == lines[CHOOSE i \in hits : \A j \in hits : j <= i]
                 previous_result == FirstNumber(line)
                 n1 == Replace(ToLower(expression), "result", previous_result)
                 n2 == Replace(n1, "answer", previous_result)
                 n3 == ReplaceSpaced(n2, "previous", "result", previous_result)
                 n4 == ReplaceSpaced(n3, "last", "result", previous_result)
             IN  _evaluate_expression(n4)
        ELSE _evaluate_expression(expression)

\* CalculatorTool.run scanning the lines oldest to newest
CalculatorToolRunOldestFirst(expression, has_memory, history) ==
    LET recent_memory == get_recent(history, RecentTurns)
        lines == SplitLines(recent_memory)
        hits == {i \in DOMAIN lines : IsCandidateLine(lines[i])}
    IN  IF /\ \E w \in ContextWords : Contains(ToLower(expression), w)
           /\ has_memory
           /\ recent_memory # ""
           /\ hits # {}
        THEN LET line == lines[CHOOSE i \in hits : \A j \in hits : j >= i]
                 previous_result == FirstNumber(line)
                 n1 == ReplaceSpaced(ToLower(expression), "previous", "result", previous_result)
                 n2 == ReplaceSpaced(n1, "last", "result", previous_result)
                 n3 == Replace(n2, "result", previous_result)
                 n4 == Replace(n3, "answer", previous_result)
             IN  _evaluate_expression(n4)
        ELSE _evaluate_expression(expression)

\* CalculatorTool.run: has_memory says whether the tool was given a memory,
\* history is that memory's turns
CalculatorToolRun(expression, has_memory, history) ==
    LET recent_memory == get_recent(history, RecentTurns)
        lines == SplitLines(recent_memory)
        hits == {i \in DOMAIN lines : IsCandidateLine(lines[i])}
    IN  IF /\ \E w \in ContextWords : Contains(ToLower(expression), w)
           /\ has_memory
           /\ recent_memory # ""
           /\ hits # {}
        THEN LET line == lines[CHOOSE i \in hits : \A j \in hits : j <= i]
                 previous_result == FirstNumber(line)
                 n1 == ReplaceSpaced(ToLower(expression), "previous", "result", previous_result)
                 n2 == ReplaceSpaced(n1, "last", "result", previous_result)
                 n3 == Replace(n2, "result", previous_result)
                 n4 == Replace(n3, "answer", previous_result)
             IN  _evaluate_expression(n4)
        ELSE _evaluate_expression(expression)

\* CalculatorAgent.run reporting every call as failed
CalculatorAgentRunNeverSucceeds(expression, has_memory, history) ==
    IF Falsy(expression)
    THEN [result |-> "Error: No expression provided", success |-> FALSE, faulted |-> FALSE]
    ELSE [result |-> CalculatorToolRun(expression, has_memory, history), success |-> FALSE,
          faulted |-> FALSE]

\* CalculatorAgent.run
CalculatorAgentRun(expression, has_memory, history) ==
    IF Falsy(expression)
    THEN [result |-> "Error: No expression provided", success |-> FALSE, faulted |-> FALSE]
    ELSE [result |-> CalculatorToolRun(expression, has_memory, history), success |-> TRUE,
          faulted |-> FALSE]

(***************************************************************************)
(* LLMAgent                                                                *)
(***************************************************************************)
\* what a completion call of the language-model service does: it returns a
\* text, or it raises one of the service faults
Completion(text) == [raised |-> FALSE, text |-> text]
Fault(text) == [raised |-> TRUE, text |-> text]

LlmAnswers == {"It is 4."}
LlmOutcomes == {Completion(t) : t \in LlmAnswers} \cup {Fault(NetworkFault)}

DocumentKeywords ==
    {"document", "metrics", "summary", "content", "file", "upload", "resume", "paper",
     "report", "company", "work", "experience", "education", "where did", "which company",
     "who worked", "who is mentioned", "who appears", "who are", "list all", "name all"}

\* LLMAgent._is_document_question
_is_document_question(input_val) ==
    \E word \in DocumentKeywords : Contains(ToLower(input_val), word)

\* RAGMemory.retrieve: the chunks found for a query (their joined text)
RagRetrieve(q, chunks, embed_ok) ==
    IF Falsy(q) \/ Strip(q) = "" THEN ""
    ELSE IF chunks /\ embed_ok THEN "chunk of the attached file" ELSE ""

\* LLMAgent.run: [result, success], or [raised] with the exception as result
\* when the exception of the completion call leaves run.  has_rag: the state
\* carries a rag_memory.  faulted: a completion call was made and raised;
\* calls: the completion calls made
LLMAgentRun(q, has_rag, rag_content, out) ==
    LET Returns(text, ok, fault, n) ==
            [raised |-> FALSE, result |-> text, success |-> ok, faulted |-> fault,
             calls |-> n]
    IN  IF Falsy(q) THEN Returns("Error: No query provided", FALSE, FALSE, 0)
        ELSE IF has_rag /\ _is_document_question(q)
        THEN IF Strip(rag_content) # ""
             THEN IF out.raised
                  THEN [raised |-> TRUE, result |-> out.text, success |-> FALSE,
                        faulted |-> TRUE, calls |-> 1]
                  ELSE Returns(out.text, TRUE, FALSE, 1)
             ELSE Returns("Not found in the document.", TRUE, FALSE, 0)
        ELSE IF out.raised THEN Returns("LLM error: " \o out.text, FALSE, TRUE, 1)
        ELSE Returns(out.text, TRUE, FALSE, 1)

(***************************************************************************)
(* WebSearchAgent                                                          *)
(***************************************************************************)
\* the longest content _format_results shows in full
ContentLimit == 800

SearchItems ==
    {[title |-> "AI", url |-> "http://a.i", content |-> "news"]}

SearchOutcomes ==
    {[raised |-> FALSE, text |-> "", items |-> <<i>>] : i \in SearchItems}
    \cup {[raised |-> TRUE, text |-> NetworkFault, items |-> <<>>]}

\* WebSearchAgent._format_results for a result dict with a "results" list
_format_results(items) ==
    LET Line(item) ==
            LET content == IF Len(item.content) > ContentLimit
                           THEN SubSeq(item.content, 1, ContentLimit) \o "..."
                           ELSE item.content
            IN  IF item.url # ""
                THEN "- [" \o item.title \o "](" \o item.url \o ")\n  " \o content
                ELSE "- " \o item.title \o "\n  " \o content
    IN  Join("\n", <<"**Web Search Results:**\n">> \o [i \in DOMAIN items |-> Line(items[i])])

\* WebSearchAgent.run
WebSearchAgentRun(q, out) ==
    IF Falsy(q)
    THEN [result |-> "Error: No search query provided", success |-> FALSE,
          faulted |-> FALSE]
    ELSE IF out.raised
    THEN [result |-> "Web search error: " \o out.text, success |-> FALSE, faulted |-> TRUE]
    ELSE [result |-> _format_results(out.items), success |-> TRUE, faulted |-> FALSE]

(***************************************************************************)
(* SummarizerAgent and DocumentSummarizerTool                              *)
(***************************************************************************)
\* the shortest document (stripped) DocumentSummarizerTool.run sends out
MinDocumentLen == 10

\* the wait DocumentSummarizerTool.run reports when the fault names none
DefaultWait == 20

NoDocumentText ==
    "No document is currently available to summarize. Please provide a document first."

SummaryAnswers == {"A summary.", "No document was given."}
SummaryOutcomes == {Completion(t) : t \in SummaryAnswers} \cup {Fault(f) : f \in ServiceFaults}

\* re.search(r'try again in (\d+\.?\d*)s', e): the seconds as f"{wait:.1f}"
RECURSIVE WaitHint(_)
WaitHint(e) ==
    IF Len(e) = 0 THEN IntToStr(DefaultWait) \o ".0"
    ELSE LET p == "try again in "
             after == SubSeq(e, Len(p) + 1, Len(e))
             num == NumberAt(after)
         IN  IF /\ StartsWith(e, p)
                /\ num # ""
                /\ ~StartsWith(num, "-")
                /\ StartsWith(SubSeq(after, Len(num) + 1, Len(after)), "s")
             THEN IF Contains(num, ".") THEN num ELSE num \o ".0"
             ELSE WaitHint(SubSeq(e, 2, Len(e)))

\* DocumentSummarizerTool.run: first and second are what its first and its
\* repeated completion call do.  [text, calls, raised]: the text returned, the
\* completion calls made, whether one of them raised
SummarizerToolRun(doc, first, second) ==
    LET stripped_doc == Strip(doc)
        Caught(e) ==
            IF Contains(e, "429") /\ Contains(ToLower(e), "rate limit")
            THEN "Rate limit exceeded. Please try again in " \o WaitHint(e) \o " seconds."
            ELSE "Error summarizing document: " \o e
    IN  IF Falsy(doc) \/ stripped_doc = "" \/ Len(stripped_doc) < MinDocumentLen
        THEN [text |-> NoDocumentText, calls |-> 0, raised |-> FALSE]
        ELSE IF first.raised THEN [text |-> Caught(first.text), calls |-> 1, raised |-> TRUE]
        ELSE IF Contains(ToLower(first.text), "no document") /\ Len(stripped_doc) > MinDocumentLen
        THEN IF second.raised
             THEN [text |-> Caught(second.text), calls |-> 2, raised |-> TRUE]
             ELSE [text |-> second.text, calls |-> 2, raised |-> FALSE]
        ELSE [text |-> first.text, calls |-> 1, raised |-> FALSE]

\* SummarizerAgent.run
SummarizerAgentRun(doc, first, second) ==
    IF Falsy(doc)
    THEN [result |-> "No document is currently available to summarize.", success |-> FALSE,
          faulted |-> FALSE]
    ELSE [result |-> "**Document Summary:**\n" \o SummarizerToolRun(doc, first, second).text,
          success |-> TRUE, faulted |-> SummarizerToolRun(doc, first, second).raised]

(***************************************************************************)
(* CodeAgent                                                               *)
(***************************************************************************)
\* An entry of the session namespace, an insertion-ordered dict: the name, the
\* text str() gives for the value, and the value's type
Value(name, value) == [name |-> name, value |-> value, kind |-> "int"]
Function(name) == [name |-> name, value |-> "<function>", kind |-> "function"]

\* the entry exec puts into a globals dict that has none, before it compiles
Builtins == [name |-> "__builtins__", value |-> "<builtins>", kind |-> "dict"]

\* the types the variable report of _run_code_with_namespace accepts
PlainKinds == {"int", "float", "str", "list", "dict", "tuple", "set"}

Has(ns, name) == \E i \in DOMAIN ns : ns[i].name = name
Lookup(ns, name) == ns[CHOOSE i \in DOMAIN ns : ns[i].name = name]

Set(entry) == [op |-> "set", entry |-> entry]
Del(name) == [op |-> "del", entry |-> [name |-> name, value |-> "", kind |-> ""]]

\* What the Python interpreter does with the code texts of the model, run in
\* the namespace ns: the names bound or deleted (in order, before any
\* exception), the text written to standard output, and the exception raised
\* ("" for none).  A text that is not listed does not parse.
NoEffect == [binds |-> <<>>, out |-> "", exc |-> "", msg |-> ""]
Unparsed == [NoEffect EXCEPT !.exc = "SyntaxError", !.msg = "invalid syntax (<string>, line 1)"]
NameError(name) ==
    [NoEffect EXCEPT !.exc = "NameError", !.msg = "name '" \o name \o "' is not defined"]

PyProgram(code, ns) ==
    CASE code = "print(1)" -> [NoEffect EXCEPT !.out = "1\n"]
      [] code = "2+2" -> NoEffect
      [] code = "x = 5" -> [NoEffect EXCEPT !.binds = <<Set(Value("x", "5"))>>]
      [] code = "x = 6" -> [NoEffect EXCEPT !.binds = <<Set(Value("x", "6"))>>]
      [] code = "print(x)" ->
            IF Has(ns, "x") THEN [NoEffect EXCEPT !.out = Lookup(ns, "x").value \o "\n"]
            ELSE NameError("x")
      [] code = "del x" ->
            IF Has(ns, "x") THEN [NoEffect EXCEPT !.binds = <<Del("x")>>]
            ELSE NameError("x")
      [] code = "1/0" ->
            [NoEffect EXCEPT !.exc = "ZeroDivisionError", !.msg = "division by zero"]
      [] code = "y = 7\n1/0" ->
            [NoEffect EXCEPT !.binds = <<Set(Value("y", "7"))>>,
                             !.exc = "ZeroDivisionError", !.msg = "division by zero"]
      [] code = "def f(): f()\nf()" ->
            [NoEffect EXCEPT !.binds = <<Set(Function("f"))>>,
                             !.exc = "RecursionError",
                             !.msg = "maximum recursion depth exceeded"]
      [] code = "print('Error')" -> [NoEffect EXCEPT !.out = "Error\n"]
      [] code = "print('SyntaxError')" -> [NoEffect EXCEPT !.out = "SyntaxError\n"]
      [] code = "print()" -> [NoEffect EXCEPT !.out = "\n"]
      [] code = "print(1)\n1/0" ->
            [NoEffect EXCEPT !.out = "1\n",
                             !.exc = "ZeroDivisionError", !.msg = "division by zero"]
      [] code = "x = 6\neval('1+')" ->
            [NoEffect EXCEPT !.binds = <<Set(Value("x", "6"))>>,
                             !.exc = "SyntaxError",
                             !.msg = "invalid syntax (<string>, line 1)"]
      [] OTHER -> Unparsed

\* ns[name] = value and del ns[name] on an insertion-ordered dict
Bind(ns, b) ==
    IF b.op = "del"
    THEN SelectSeq(ns, LAMBDA e : e.name # b.entry.name)
    ELSE IF Has(ns, b.entry.name)
    THEN [i \in DOMAIN ns |-> IF ns[i].name = b.entry.name THEN b.entry ELSE ns[i]]
    ELSE Append(ns, b.entry)

\* a run that leaves only its own bindings in the namespace
BindFresh(ns, bs) == [i \in DOMAIN bs |-> bs[i].entry]

RECURSIVE BindAll(_, _)
BindAll(ns, bs) == IF Len(bs) = 0 THEN ns ELSE BindAll(Bind(ns, Head(bs)), Tail(bs))

NoOutputText == "(Code executed successfully, no output produced)"

\* the entries the variable report may show, the latest binding first
ReportableLatestFirst(ns) ==
    LET shown == SelectSeq(ns, LAMBDA e : /\ ~StartsWith(e.name, "_")
                                          /\ e.kind \in PlainKinds)
    IN  [i \in DOMAIN shown |-> shown[Len(shown) + 1 - i]]

\* the entries the variable report may show, in insertion order
Reportable(ns) ==
    SelectSeq(ns, LAMBDA e : /\ ~StartsWith(e.name, "_")
                             /\ e.kind # "function"
                             /\ e.kind \in PlainKinds)

\* _run_code_with_namespace giving the variable report before the captured
\* output
_run_code_reporting_first(code_in, ns) ==
    LET code == Strip(code_in)
        ns1 == IF Has(ns, "__builtins__") THEN ns ELSE Append(ns, Builtins)
        p == PyProgram(code, ns1)
        ns2 == BindAll(ns1, p.binds)
        shown == Reportable(ns2)
        output == Strip(p.out)
    IN  IF code = "" THEN [text |-> "(No code provided)", ns |-> ns]
        ELSE IF p.exc = ""
        THEN [text |-> IF Len(shown) > 0
                       THEN "Variable '" \o shown[1].name \o "' = " \o shown[1].value
                       ELSE IF output # "" THEN output
                       ELSE NoOutputText,
              ns |-> ns2]
        ELSE IF p.exc = "RecursionError"
        THEN [text |-> "Recursion error: " \o p.msg
                       \o ". The function may have infinite recursion.",
              ns |-> ns2]
        ELSE IF p.exc = "SyntaxError"
        THEN [text |-> "SyntaxError: " \o p.msg, ns |-> ns2]
        ELSE [text |-> "Error: " \o p.exc \o ": " \o p.msg, ns |-> ns2]

\* CodeAgent._run_code_with_namespace: [text, ns]
_run_code_with_namespace(code_in, ns) ==
    LET code == Strip(code_in)
        ns1 == IF Has(ns, "__builtins__") THEN ns ELSE Append(ns, Builtins)
        p == PyProgram(code, ns1)
        ns2 == BindAll(ns1, p.binds)
        shown == Reportable(ns2)
        output == Strip(p.out)
    IN  IF code = "" THEN [text |-> "(No code provided)", ns |-> ns]
        ELSE IF p.exc = ""
        THEN [text |-> IF output # "" THEN output
                       ELSE IF Len(shown) > 0
                       THEN "Variable '" \o shown[1].name \o "' = " \o shown[1].value
                       ELSE NoOutputText,
              ns |-> ns2]
        ELSE IF p.exc = "RecursionError"
        THEN [text |-> "Recursion error: " \o p.msg
                       \o ". The function may have infinite recursion.",
              ns |-> ns2]
        ELSE IF p.exc = "SyntaxError"
        THEN [text |-> "SyntaxError: " \o p.msg, ns |-> ns2]
        ELSE [text |-> "Error: " \o p.exc \o ": " \o p.msg, ns |-> ns2]

\* CodeAgent._extract_code_from_message
_extract_code_from_message(message) ==
    IF Len(message) >= 2 * Len(Fence) /\ StartsWith(message, Fence) /\ EndsWith(message, Fence)
    THEN _extract_code(message)
    ELSE Strip(message)

\* what the language model answers to the fix-only prompt
FixerOutcomes ==
    {Completion("print(1)"), Completion(Fence \o "python\nprint(1)\n" \o Fence),
     Completion("pr int(1)"), Completion("1/0"), Fault(NetworkFault)}

\* CodeAgent._fix_code_with_llm: the corrected code, fences stripped
_fix_code_with_llm(out) ==
    LET response == LLMAgentRun("You are a Python code fixer.", FALSE, "", out)
        t0 == Strip(response.result)
        t1 == IF StartsWith(t0, Fence \o "python") THEN SubSeq(t0, Len(Fence) + 7, Len(t0))
              ELSE IF StartsWith(t0, Fence) THEN SubSeq(t0, Len(Fence) + 1, Len(t0))
              ELSE t0
        t2 == IF EndsWith(t1, Fence) THEN SubSeq(t1, 1, Len(t1) - Len(Fence)) ELSE t1
    IN  Strip(t2)

\* CodeAgent.run asking the fixer again when the corrected code fails too
CodeAgentRunRetrying(code_in, ns, fix) ==
    LET code == Strip(code_in)
        r1 == _run_code_with_namespace(code, ns)
        fixed_code == _fix_code_with_llm(fix)
        r2 == _run_code_with_namespace(fixed_code, r1.ns)
        r3 == _run_code_with_namespace(fixed_code, r2.ns)
        again == Contains(r1.text, "SyntaxError") /\ Contains(r2.text, "Error")
    IN  [result |-> IF again THEN r3.text ELSE r2.text, success |-> FALSE,
         ns |-> IF again THEN r3.ns ELSE r2.ns,
         fixes |-> IF again THEN 2 ELSE 1, runs |-> IF again THEN 3 ELSE 2,
         faulted |-> fix.raised, code |-> code, first |-> r1.text,
         fixed |-> fixed_code, second |-> r2.text]

\* CodeAgent.run giving the marker without the corrected code's output
CodeAgentRunMarkerOnly(code_in, ns, fix) ==
    LET code == Strip(code_in)
        r1 == _run_code_with_namespace(code, ns)
        fixed_code == _fix_code_with_llm(fix)
        r2 == _run_code_with_namespace(fixed_code, r1.ns)
    IN  [result |-> "Auto-fixed syntax.", success |-> ~Contains(r2.text, "Error"),
         ns |-> r2.ns, fixes |-> 1, runs |-> 2,
         faulted |-> fix.raised, code |-> code, first |-> r1.text,
         fixed |-> fixed_code, second |-> r2.text]

AutoFixMark == "Auto-fixed syntax. **Result:**\n"
AutoFixFailedNote == " (Auto-fixer failed)"
CodeErrorMark == "**Code Execution Error:** "
CodeResultMark == "**Code Execution Result:**\n"

\* CodeAgent.run: result and success, the session namespace afterwards, and
\* what the run did on the way: the code it extracted, the text of the first
\* execution, the number of calls of the fixer and of the interpreter, the
\* code the fixer gave and the text of the corrective execution (None where
\* there was none).  The robot emoji that opens the auto-fix marker is left
\* out.
CodeAgentRun(code_in, ns, fix) ==
    LET code == _extract_code_from_message(code_in)
        r1 == _run_code_with_namespace(code, ns)
        fixed_code == _fix_code_with_llm(fix)
        r2 == _run_code_with_namespace(fixed_code, r1.ns)
        plain == [result |-> "", success |-> FALSE, ns |-> r1.ns, fixes |-> 0, runs |-> 1,
                  faulted |-> FALSE, code |-> code, first |-> r1.text, fixed |-> None,
                  second |-> None]
    IN  IF Falsy(code_in)
        THEN [plain EXCEPT !.result = "Error: No code provided", !.ns = ns, !.runs = 0,
                           !.code = None, !.first = None]
        ELSE IF Contains(r1.text, "SyntaxError") \/ Contains(r1.text, "IndentationError")
        THEN IF Strip(fixed_code) # Strip(code)
             THEN IF ~Contains(r2.text, "Error")
                  THEN [plain EXCEPT !.result = AutoFixMark \o r2.text,
                                     !.success = TRUE, !.ns = r2.ns, !.fixes = 1,
                                     !.runs = 2, !.faulted = fix.raised,
                                     !.fixed = fixed_code, !.second = r2.text]
                  ELSE [plain EXCEPT !.result = CodeErrorMark \o r2.text
                                                   \o AutoFixFailedNote,
                                     !.ns = r2.ns, !.fixes = 1, !.runs = 2,
                                     !.faulted = fix.raised,
                                     !.fixed = fixed_code, !.second = r2.text]
             ELSE [plain EXCEPT !.result = CodeErrorMark \o r1.text \o AutoFixFailedNote,
                                !.fixes = 1, !.faulted = fix.raised,
                                !.fixed = fixed_code]
        ELSE IF Contains(r1.text, "Error")
        THEN [plain EXCEPT !.result = CodeErrorMark \o r1.text]
        ELSE [plain EXCEPT !.result = CodeResultMark \o r1.text, !.success = TRUE]

(***************************************************************************)
(* MasterAgent: the graph                                                  *)
(***************************************************************************)
HandlerNodes ==
    {"execute_calculator", "execute_code", "execute_web_search", "execute_summarizer",
     "execute_llm"}

\* _route_to_tool with the end test off by one: done one step early
RouteDoneEarly(stps, index) ==
    IF index >= Len(stps) - 1 THEN "done"
    ELSE LET tool_name == Get(stps[index + 1].tool, "llm")
         IN  IF tool_name \in {"calculator", "code_executor", "web_search", "summarizer"}
             THEN tool_name ELSE "llm"

\* MasterAgent._route_to_tool
_route_to_tool(stps, index) ==
    IF index >= Len(stps) THEN "done"
    ELSE LET tool_name == Get(stps[index + 1].tool, "llm")
         IN  IF tool_name = "calculator" THEN "calculator"
             ELSE IF tool_name = "code_executor" THEN "code_executor"
             ELSE IF tool_name = "web_search" THEN "web_search"
             ELSE IF tool_name = "summarizer" THEN "summarizer"
             ELSE "llm"

\* the conditional edges with "done" wired to the end of the graph
EdgeTargetSkipsFormat(route) ==
    CASE route = "calculator" -> "execute_calculator"
      [] route = "code_executor" -> "execute_code"
      [] route = "web_search" -> "execute_web_search"
      [] route = "summarizer" -> "execute_summarizer"
      [] route = "llm" -> "execute_llm"
      [] route = "done" -> "end"

\* the conditional edges _build_graph attaches to task_planner and next_step
EdgeTarget(route) ==
    CASE route = "calculator" -> "execute_calculator"
      [] route = "code_executor" -> "execute_code"
      [] route = "web_search" -> "execute_web_search"
      [] route = "summarizer" -> "execute_summarizer"
      [] route = "llm" -> "execute_llm"
      [] route = "done" -> "format_response"

\* _task_planner_node giving a step without a tool the calculator
PlanStepsDefaultCalculator(returned, q) ==
    IF Len(returned) > 0
    THEN [i \in DOMAIN returned |->
            [tool |-> Get(returned[i].tool, "calculator"),
             input |-> Get(returned[i].input, ""),
             status |-> "pending", result |-> None]]
    ELSE <<[tool |-> "llm", input |-> q, status |-> "pending", result |-> None]>>

\* _task_planner_node without its fallback: an empty step list stays empty
PlanStepsNoFallback(returned, q) ==
    [i \in DOMAIN returned |->
        [tool |-> Get(returned[i].tool, "llm"), input |-> Get(returned[i].input, ""),
         status |-> "pending", result |-> None]]

\* the steps _task_planner_node puts into the state
PlanSteps(returned, q) ==
    IF Len(returned) > 0
    THEN [i \in DOMAIN returned |->
            [tool |-> Get(returned[i].tool, "llm"), input |-> Get(returned[i].input, ""),
             status |-> "pending", result |-> None]]
    ELSE <<[tool |-> "llm", input |-> q, status |-> "pending", result |-> None]>>

\* a handler node that overwrites the step's input with its result as well
StepDoneRewritesInput(step, r) ==
    [step EXCEPT !.result = r.result, !.input = r.result,
                 !.status = IF r.success THEN "completed" ELSE "failed"]

\* a handler node writes its agent's result into the current step
StepDone(step, r) ==
    [step EXCEPT !.result = r.result,
                 !.status = IF r.success THEN "completed" ELSE "failed"]

\* a handler node that keeps the result of a successful step only
ResultsAfterOnSuccess(res, r) == IF r.success THEN Append(res, r.result) ELSE res

\* a handler node's "Add to results and failed steps if needed"
ResultsAfter(res, r) == Append(res, r.result)

\* a handler node putting the new failure record in front of the others
FailedAfterNewestFirst(failed, index, tool, step, r) ==
    IF ~r.success
    THEN <<[step |-> index + 1, tool |-> tool, input |-> step.input, error |-> r.result]>>
             \o failed
    ELSE failed

FailedAfter(failed, index, tool, step, r) ==
    IF ~r.success
    THEN Append(failed, [step |-> index + 1, tool |-> tool, input |-> step.input,
                         error |-> r.result])
    ELSE failed

\* _next_step_node advancing by two
NextIndexSkip(index) == index + 2

\* _next_step_node
NextIndex(index) == index + 1

Visit(node) == visited' = Append(visited, [node |-> node, index |-> current_step_index])

CurrentStep == steps[current_step_index + 1]

\* the part of a handler node all five share: the step, results, failed_steps
Record(tool, r) ==
    /\ steps' = [steps EXCEPT ![current_step_index + 1] = StepDone(CurrentStep, r)]
    /\ results' = ResultsAfter(results, r)
    /\ failed_steps' = FailedAfter(failed_steps, current_step_index, tool, CurrentStep, r)
    /\ faulted' = IF r.faulted THEN faulted \cup {current_step_index + 1} ELSE faulted

\* "Update short-term and long-term memory" of the calculator and llm nodes
Remember(r) ==
    /\ memory' = Append(memory, <<CurrentStep.input, r.result>>)
    /\ facts' = IF long_memory_arg
                THEN Append(facts, [input |-> CurrentStep.input, result |-> r.result])
                ELSE facts

\* the handler of a tool made n calls of its external service for the step
Requested(tool, n) ==
    requests' = Append(requests, [step |-> current_step_index + 1, tool |-> tool, calls |-> n])

(***************************************************************************)
(* The operations                                                          *)
(***************************************************************************)
\* no completion of the planning service yet
NoReply == [kind |-> "none", steps |-> <<>>]

\* an execution MasterAgent.run has not been called for yet
NotStarted ==
    [id |-> 2, pc |-> "idle", query |-> None, document |-> None, steps |-> <<>>,
     current_step_index |-> 0, results |-> <<>>, failed_steps |-> <<>>,
     final_response |-> None, reply |-> None, exception |-> None, planned |-> <<>>,
     service_reply |-> NoReply,
     faulted |-> {}, requests |-> <<>>, visited |-> <<>>]

\* the execution that is running (1 or 2)
Running == 3 - peer.id

Init ==
    /\ pc = "idle"
    /\ query = None
    /\ document = None
    /\ steps = <<>>
    /\ current_step_index = 0
    /\ results = <<>>
    /\ failed_steps = <<>>
    /\ final_response = None
    /\ reply = None
    /\ memory = <<>>
    /\ facts = <<>>
    /\ rag_chunks = FALSE
    /\ session_namespace = <<>>
    /\ code_log = <<>>
    /\ peer = NotStarted
    /\ memory_arg = TRUE
    /\ long_memory_arg = TRUE
    /\ exception = None
    /\ planned = <<>>
    /\ service_reply = NoReply
    /\ faulted = {}
    /\ requests = <<>>
    /\ visited = <<>>

\* chat_fn building a new code runner for every request
ReceiveWithFreshRunner(messages, documents) ==
    /\ pc = "idle"
    /\ \E message \in messages, text \in documents :
        /\ query' = message
        /\ document' = text
    /\ session_namespace' = <<>>
    /\ memory' = <<>>
    /\ steps' = <<>>
    /\ current_step_index' = 0
    /\ results' = <<>>
    /\ failed_steps' = <<>>
    /\ final_response' = None
    /\ pc' = "task_planner"
    /\ UNCHANGED <<peer, code_log, faulted, requests, reply, facts, rag_chunks, memory_arg, long_memory_arg,
                   exception, planned, service_reply, visited>>

\* chat_fn up to the call of MasterAgent.run, and run up to graph.ainvoke,
\* for the messages and attached documents of a set of requests
Receive(messages, documents) ==
    /\ pc = "idle"
    /\ \E message \in messages, text \in documents :
        /\ query' = message
        /\ document' = text
        /\ rag_chunks' = (rag_chunks \/ (~Falsy(text) /\ Strip(text) # ""))
    /\ memory' = <<>>
    /\ steps' = <<>>
    /\ current_step_index' = 0
    /\ results' = <<>>
    /\ failed_steps' = <<>>
    /\ final_response' = None
    /\ pc' = "task_planner"
    /\ UNCHANGED <<peer, code_log, faulted, requests, reply, facts, session_namespace, memory_arg, long_memory_arg,
                   exception, planned, service_reply, visited>>

ChatFn == Receive(Messages, Documents)

\* chat_fn when reading the attached file raises
ChatFnFileError ==
    /\ pc = "idle"
    /\ memory' = <<>>
    /\ reply' = "Error processing file: " \o "cannot read"
    /\ pc' = "returned"
    /\ UNCHANGED <<peer, code_log, faulted, requests, query, document, steps, current_step_index, results, failed_steps,
                   final_response, facts, rag_chunks, session_namespace, memory_arg,
                   long_memory_arg, exception, planned, service_reply, visited>>

\* the task_planner node, for the replies the planning service may give
Plan(replies) ==
    /\ pc = "task_planner"
    /\ \E r \in replies :
        /\ planned' = TaskPlannerRun(query, r)
        /\ service_reply' = IF Falsy(query) THEN NoReply ELSE r
        /\ steps' = PlanSteps(planned', query)
    /\ current_step_index' = 0
    /\ Visit("task_planner")
    /\ pc' = "router"
    /\ UNCHANGED <<peer, code_log, faulted, requests, query, document, results, failed_steps, final_response, reply, memory,
                   facts, rag_chunks, session_namespace, memory_arg, long_memory_arg,
                   exception>>

TaskPlannerNode == Plan(PlannerReplies)

\* the conditional edge after task_planner and after next_step
RouteToTool ==
    /\ pc = "router"
    /\ pc' = EdgeTarget(_route_to_tool(steps, current_step_index))
    /\ UNCHANGED <<peer, code_log, faulted, requests, query, document, steps, current_step_index, results, failed_steps,
                   final_response, reply, memory, facts, rag_chunks, session_namespace,
                   memory_arg, long_memory_arg, exception, planned, service_reply, visited>>

\* the execute_calculator node
CalculatorNode ==
    /\ pc = "execute_calculator"
    /\ LET r == CalculatorAgentRun(CurrentStep.input, memory_arg, memory)
       IN  Record("calculator", r) /\ Remember(r)
    /\ Requested("calculator", 0)
    /\ Visit("execute_calculator")
    /\ pc' = "next_step"
    /\ UNCHANGED <<peer, code_log, query, document, current_step_index, final_response, reply, rag_chunks,
                   session_namespace, memory_arg, long_memory_arg, exception, planned, service_reply>>

\* the entry of code_log for the call of CodeAgent.run at a plan position
CodeCall(position, before, r) ==
    [run |-> Running, step |-> position, before |-> before, after |-> r.ns, code |-> r.code,
     first |-> r.first, fixes |-> r.fixes, runs |-> r.runs, fixed |-> r.fixed,
     second |-> r.second, result |-> r.result, success |-> r.success]

\* the execute_code node
CodeExecutorNode ==
    /\ pc = "execute_code"
    /\ \E fix \in FixerOutcomes :
        \E r \in {CodeAgentRun(CurrentStep.input, session_namespace, fix)} :
            /\ Record("code_executor", r)
            /\ session_namespace' = r.ns
            /\ code_log' = Append(code_log, CodeCall(current_step_index + 1, session_namespace, r))
            /\ Requested("code_executor", r.fixes)
    /\ Visit("execute_code")
    /\ pc' = "next_step"
    /\ UNCHANGED <<peer, query, document, current_step_index, final_response, reply, memory,
                   facts, rag_chunks, memory_arg, long_memory_arg, exception, planned, service_reply>>

\* the execute_web_search node
WebSearchNode ==
    /\ pc = "execute_web_search"
    /\ \E out \in SearchOutcomes :
        Record("web_search", WebSearchAgentRun(CurrentStep.input, out))
    /\ Requested("web_search", IF Falsy(CurrentStep.input) THEN 0 ELSE 1)
    /\ Visit("execute_web_search")
    /\ pc' = "next_step"
    /\ UNCHANGED <<peer, code_log, query, document, current_step_index, final_response, reply, memory,
                   facts, rag_chunks, session_namespace, memory_arg, long_memory_arg,
                   exception, planned, service_reply>>

\* the execute_summarizer node
SummarizerNode ==
    /\ pc = "execute_summarizer"
    /\ \E first \in SummaryOutcomes, second \in SummaryOutcomes :
        /\ Record("summarizer", SummarizerAgentRun(document, first, second))
        /\ Requested("summarizer",
                     IF Falsy(document) THEN 0
                     ELSE SummarizerToolRun(document, first, second).calls)
    /\ Visit("execute_summarizer")
    /\ pc' = "next_step"
    /\ UNCHANGED <<peer, code_log, query, document, current_step_index, final_response, reply, memory,
                   facts, rag_chunks, session_namespace, memory_arg, long_memory_arg,
                   exception, planned, service_reply>>

\* what LLMAgent.run does for the current step, for each thing the retrieval
\* store and the completion service can do
LlmRuns ==
    {LLMAgentRun(CurrentStep.input, TRUE,
                 RagRetrieve(CurrentStep.input, rag_chunks, embed_ok), out) :
        embed_ok \in BOOLEAN, out \in LlmOutcomes}

\* the execute_llm node, LLMAgent.run returning
LlmNode ==
    /\ pc = "execute_llm"
    /\ \E r \in LlmRuns :
        /\ ~r.raised
        /\ Record("llm", r)
        /\ Remember(r)
        /\ Requested("llm", r.calls)
    /\ Visit("execute_llm")
    /\ pc' = "next_step"
    /\ UNCHANGED <<peer, code_log, query, document, current_step_index, final_response, reply, rag_chunks,
                   session_namespace, memory_arg, long_memory_arg, exception, planned, service_reply>>

\* the execute_llm node, the exception of LLMAgent.run leaving the node and
\* with it graph.ainvoke and MasterAgent.run
LlmNodeRaise ==
    /\ pc = "execute_llm"
    /\ \E r \in LlmRuns :
        /\ r.raised
        /\ exception' = r.result
        /\ faulted' = faulted \cup {current_step_index + 1}
        /\ Requested("llm", r.calls)
    /\ Visit("execute_llm")
    /\ pc' = "raised"
    /\ UNCHANGED <<peer, code_log, query, document, steps, current_step_index, results, failed_steps,
                   final_response, reply, memory, facts, rag_chunks, session_namespace,
                   memory_arg, long_memory_arg, planned, service_reply>>

\* the next_step node
NextStepNode ==
    /\ pc = "next_step"
    /\ current_step_index' = NextIndex(current_step_index)
    /\ Visit("next_step")
    /\ pc' = "router"
    /\ UNCHANGED <<peer, code_log, faulted, requests, query, document, steps, results, failed_steps, final_response, reply,
                   memory, facts, rag_chunks, session_namespace, memory_arg,
                   long_memory_arg, exception, planned, service_reply>>

(***************************************************************************)
(* MasterAgent: the final response                                         *)
(***************************************************************************)
IsLetter(c) ==
    \E i \in 1..Len(Upper) : SubSeq(Upper, i, i) = c \/ SubSeq(Lower, i, i) = c

UpperChar(c) ==
    IF \E i \in 1..Len(Lower) : SubSeq(Lower, i, i) = c
    THEN LET i == CHOOSE j \in 1..Len(Lower) : SubSeq(Lower, j, j) = c
         IN SubSeq(Upper, i, i)
    ELSE c

\* s.title(): a letter after a non-letter in upper case, the others in lower
RECURSIVE TitleFrom(_, _)
TitleFrom(s, after_letter) ==
    IF Len(s) = 0 THEN s
    ELSE LET c == SubSeq(s, 1, 1)
         IN  (IF after_letter THEN LowerChar(c) ELSE UpperChar(c))
             \o TitleFrom(SubSeq(s, 2, Len(s)), IsLetter(c))

Title(s) == TitleFrom(s, FALSE)

\* tool_headers.get(tool, f"## {tool.title()} Agent:")
ToolHeader(tool) ==
    CASE tool = "web_search" -> "## Web Search Agent:"
      [] tool = "calculator" -> "## Calculator Agent:"
      [] tool = "summarizer" -> "## Summarizer Agent:"
      [] tool = "code_executor" -> "## Code Executor Agent:"
      [] tool = "llm" -> "## LLM Agent:"
      [] OTHER -> "## " \o Title(tool) \o " Agent:"

\* one entry of formatted_results
StepBlock(step) == ToolHeader(Get(step.tool, "llm")) \o "\n" \o step.result

\* one line of the failed-steps section (its bullet written as "*")
FailedLine(fs) ==
    "* Step " \o IntToStr(fs.step) \o " (" \o fs.tool \o "): " \o fs.error

\* _format_response_node listing the per-step blocks in the total-failure
\* response as well
FormatResponseBlocksAlways(q, stps, failed) ==
    LET formatted_results == [i \in DOMAIN stps |-> StepBlock(stps[i])]
        total_steps == Len(stps)
        successful_count == total_steps - Len(failed)
        head ==
            IF successful_count = 0
            THEN <<"[x] **All steps failed** for your request: \"" \o q \o "\"">>
                     \o formatted_results
            ELSE <<"[ok] **Partial Success:** " \o IntToStr(successful_count) \o " out of "
                       \o IntToStr(total_steps) \o " steps completed.",
                   "\n**[ok] Successful Results:**">> \o formatted_results
    IN  IF Len(failed) = 0
        THEN IF Len(formatted_results) > 1 THEN Join("\n\n", formatted_results)
             ELSE IF Len(formatted_results) = 1 THEN formatted_results[1] ELSE ""
        ELSE Join("\n", head \o <<"\n**[x] Failed Steps:**">>
                             \o [i \in DOMAIN failed |-> FailedLine(failed[i])])

\* _format_response_node: the final response (the emoji that open its
\* headlines are written "[ok]" and "[x]")
FormatResponse(q, stps, failed) ==
    LET formatted_results == [i \in DOMAIN stps |-> StepBlock(stps[i])]
        total_steps == Len(stps)
        successful_count == total_steps - Len(failed)
        head ==
            IF successful_count = 0
            THEN <<"[x] **All steps failed** for your request: \"" \o q \o "\"">>
            ELSE <<"[ok] **Partial Success:** " \o IntToStr(successful_count) \o " out of "
                       \o IntToStr(total_steps) \o " steps completed.",
                   "\n**[ok] Successful Results:**">> \o formatted_results
    IN  IF Len(failed) = 0
        THEN IF Len(formatted_results) > 1 THEN Join("\n\n", formatted_results)
             ELSE IF Len(formatted_results) = 1 THEN formatted_results[1] ELSE ""
        ELSE Join("\n", head \o <<"\n**[x] Failed Steps:**">>
                             \o [i \in DOMAIN failed |-> FailedLine(failed[i])])

\* the format_response node
FormatResponseNode ==
    /\ pc = "format_response"
    /\ final_response' = FormatResponse(query, steps, failed_steps)
    /\ Visit("format_response")
    /\ pc' = "end"
    /\ UNCHANGED <<peer, code_log, faulted, requests, query, document, steps, current_step_index, results, failed_steps,
                   reply, memory, facts, rag_chunks, session_namespace, memory_arg,
                   long_memory_arg, exception, planned, service_reply>>

\* MasterAgent.run after graph.ainvoke, and chat_fn's return of its result
RunReturn ==
    /\ pc = "end"
    /\ final_response' = IF Falsy(final_response) THEN "No response generated."
                         ELSE final_response
    /\ memory' = Append(memory, <<query, final_response'>>)
    /\ reply' = final_response'
    /\ pc' = "returned"
    /\ UNCHANGED <<peer, code_log, faulted, requests, query, document, steps, current_step_index, results, failed_steps,
                   facts, rag_chunks, session_namespace, memory_arg, long_memory_arg,
                   exception, planned, service_reply, visited>>

\* chat_fn's handler of an exception of MasterAgent.run
ChatFnExcept ==
    /\ pc = "raised"
    /\ reply' = "Error: " \o exception
    /\ pc' = "returned"
    /\ UNCHANGED <<peer, code_log, faulted, requests, query, document, steps, current_step_index, results, failed_steps,
                   final_response, memory, facts, rag_chunks, session_namespace,
                   memory_arg, long_memory_arg, exception, planned, service_reply, visited>>

Next ==
    \/ ChatFn
    \/ ChatFnFileError
    \/ TaskPlannerNode
    \/ RouteToTool
    \/ CalculatorNode
    \/ CodeExecutorNode
    \/ WebSearchNode
    \/ SummarizerNode
    \/ LlmNode
    \/ LlmNodeRaise
    \/ NextStepNode
    \/ FormatResponseNode
    \/ RunReturn
    \/ ChatFnExcept

Spec == Init /\ [][Next]_vars

(***************************************************************************)
(* The code runner over many requests: the requests whose plans are made   *)
(* of code steps, one request after the other on the one MasterAgent of    *)
(* main.py.                                                                *)
(***************************************************************************)
CodeMessages == {"run my code"}

\* the code texts of the code steps
CodeInputs ==
    {"", "print(1)", "pr int(1)", "x = 5", "x = 6", "print(x)", "del x", "y = 7\n1/0",
     "def f(): f()\nf()", "print('SyntaxError')"}

CodePlannerReplies ==
    {[kind |-> "steps", steps |-> q] :
        q \in SeqsUpTo({[tool |-> "code_executor", input |-> i] : i \in CodeInputs},
                       MaxSteps) \ {<<>>}}

CodeChatFn == Receive(CodeMessages, {""})

CodeTaskPlannerNode == Plan(CodePlannerReplies)

\* the interface calls sync_chat_fn for the next message: the state of the
\* request that has returned is gone with its call, and with it its
\* histories; what the objects of main.py hold stays
NextMessage ==
    /\ pc = "returned"
    /\ pc' = "idle"
    /\ query' = None
    /\ document' = None
    /\ steps' = <<>>
    /\ current_step_index' = 0
    /\ results' = <<>>
    /\ failed_steps' = <<>>
    /\ final_response' = None
    /\ reply' = None
    /\ exception' = None
    /\ planned' = <<>>
    /\ service_reply' = NoReply
    /\ faulted' = {}
    /\ requests' = <<>>
    /\ visited' = <<>>
    /\ code_log' = <<>>
    /\ UNCHANGED <<peer, memory, facts, rag_chunks, session_namespace, memory_arg,
                   long_memory_arg>>

CodeNext ==
    \/ CodeChatFn
    \/ CodeTaskPlannerNode
    \/ RouteToTool
    \/ CodeExecutorNode
    \/ NextStepNode
    \/ FormatResponseNode
    \/ RunReturn
    \/ NextMessage

CodeSpec == Init /\ [][CodeNext]_vars

(***************************************************************************)
(* Two executions at a time on the one MasterAgent of main.py: the          *)
(* interface runs sync_chat_fn for two messages in two threads, each with  *)
(* an event loop and an AgentState of its own, both on master_agent and    *)
(* its sub-agents.                                                         *)
(***************************************************************************)
ConcInputs == {"x = 5", "print(x)"}

ConcPlannerReplies ==
    {[kind |-> "steps", steps |-> q] :
        q \in SeqsUpTo({[tool |-> "code_executor", input |-> i] : i \in ConcInputs},
                       MaxSteps) \ {<<>>}}

ConcTaskPlannerNode == Plan(ConcPlannerReplies)

\* the other execution resuming with a code runner of its own
SwitchIsolated ==
    /\ peer.pc # "returned"
    /\ peer' = [id |-> Running, pc |-> pc, query |-> query, document |-> document,
                steps |-> steps, current_step_index |-> current_step_index,
                results |-> results, failed_steps |-> failed_steps,
                final_response |-> final_response, reply |-> reply,
                exception |-> exception, planned |-> planned,
                service_reply |-> service_reply, faulted |-> faulted,
                requests |-> requests,
                visited |-> visited]
    /\ pc' = peer.pc
    /\ query' = peer.query
    /\ document' = peer.document
    /\ steps' = peer.steps
    /\ current_step_index' = peer.current_step_index
    /\ results' = peer.results
    /\ failed_steps' = peer.failed_steps
    /\ final_response' = peer.final_response
    /\ reply' = peer.reply
    /\ exception' = peer.exception
    /\ planned' = peer.planned
    /\ service_reply' = peer.service_reply
    /\ faulted' = peer.faulted
    /\ requests' = peer.requests
    /\ visited' = peer.visited
    /\ session_namespace' = <<>>
    /\ UNCHANGED <<memory, facts, rag_chunks, code_log, memory_arg, long_memory_arg>>

\* the scheduler passes control to the other execution: the AgentState and
\* the position of the running one are set aside, those of the other taken
\* up; what the objects of main.py hold is the same for both
Switch ==
    /\ peer.pc # "returned"
    /\ peer' = [id |-> Running, pc |-> pc, query |-> query, document |-> document,
                steps |-> steps, current_step_index |-> current_step_index,
                results |-> results, failed_steps |-> failed_steps,
                final_response |-> final_response, reply |-> reply,
                exception |-> exception, planned |-> planned,
                service_reply |-> service_reply, faulted |-> faulted,
                requests |-> requests,
                visited |-> visited]
    /\ pc' = peer.pc
    /\ query' = peer.query
    /\ document' = peer.document
    /\ steps' = peer.steps
    /\ current_step_index' = peer.current_step_index
    /\ results' = peer.results
    /\ failed_steps' = peer.failed_steps
    /\ final_response' = peer.final_response
    /\ reply' = peer.reply
    /\ exception' = peer.exception
    /\ planned' = peer.planned
    /\ service_reply' = peer.service_reply
    /\ faulted' = peer.faulted
    /\ requests' = peer.requests
    /\ visited' = peer.visited
    /\ UNCHANGED <<memory, facts, rag_chunks, session_namespace, code_log, memory_arg,
                   long_memory_arg>>

ConcNext ==
    \/ CodeChatFn
    \/ ConcTaskPlannerNode
    \/ RouteToTool
    \/ CodeExecutorNode
    \/ NextStepNode
    \/ FormatResponseNode
    \/ RunReturn
    \/ Switch

ConcSpec == Init /\ [][ConcNext]_vars

(***************************************************************************)
(* The calculator over the messages of a session: requests whose plan is   *)
(* one calculator step, the conversation memory of main.py staying from    *)
(* one message of the session to the next.                                 *)
(***************************************************************************)
\* how many calculator requests are followed
MaxMessages == 2

CalcMessages == {"calculate"}

\* the expressions of the calculator steps
CalcInputs ==
    {"2+2", "32+64", "175.407089+10", "3/2", "6/2", "1/3", "1/0", "3.0", "10 divide 4",
     "add 10 to the previous result", "previous result + 10", "last result * 2",
     "answer - previous result", "result add 1"}

CalcPlannerReplies ==
    {[kind |-> "steps", steps |-> <<[tool |-> "calculator", input |-> i]>>] : i \in CalcInputs}

\* the first message of a session
CalcChatFn == Receive(CalcMessages, {""})

\* chat_fn for a later message of a session: the interface passes the turns
\* so far as history, and the memory is not cleared.  (The memory holds the
\* turn MasterAgent.run added for the message before.)
ChatFnLater ==
    /\ pc = "idle"
    /\ memory # <<>>
    /\ query' \in CalcMessages
    /\ document' = ""
    /\ steps' = <<>>
    /\ current_step_index' = 0
    /\ results' = <<>>
    /\ failed_steps' = <<>>
    /\ final_response' = None
    /\ pc' = "task_planner"
    /\ UNCHANGED <<peer, code_log, faulted, requests, reply, memory, facts, rag_chunks, session_namespace,
                   memory_arg, long_memory_arg, exception, planned, service_reply, visited>>

CalcTaskPlannerNode == Plan(CalcPlannerReplies)

\* the next message, while fewer than MaxMessages calculations were made
CalcNextMessage == Len(facts) < MaxMessages /\ NextMessage

CalcNext ==
    \/ CalcChatFn
    \/ ChatFnLater
    \/ CalcTaskPlannerNode
    \/ RouteToTool
    \/ CalculatorNode
    \/ NextStepNode
    \/ FormatResponseNode
    \/ RunReturn
    \/ CalcNextMessage

CalcSpec == Init /\ [][CalcNext]_vars

(***************************************************************************)
(* Context resolution over a longer session: three calculator requests,    *)
(* so that the memory the third one reads holds the lines of two earlier    *)
(* calculations.                                                           *)
(***************************************************************************)
\* how many calculator requests of such a session are followed
MaxTurns == 3

\* Its plans are one calculator step; the next message is followed while
\* fewer than MaxTurns calculations were made.
ResolveNext ==
    \/ CalcChatFn
    \/ ChatFnLater
    \/ Plan({[kind |-> "steps", steps |-> <<[tool |-> "calculator", input |-> i]>>] :
                i \in {"2+2", "32+64", "inf", "previous result + 10"}})
    \/ RouteToTool
    \/ CalculatorNode
    \/ NextStepNode
    \/ FormatResponseNode
    \/ RunReturn
    \/ (Len(facts) < MaxTurns /\ NextMessage)

ResolveSpec == Init /\ [][ResolveNext]_vars

(***************************************************************************)
(* The code runner on code that prints and binds and fails: one request    *)
(* whose plan is made of code steps.                                       *)
(***************************************************************************)
\* the code texts of its code steps
RunnerInputs ==
    {"x = 5", "print(x)", "print()", "print(1)\n1/0", "print('Error')", "y = 7\n1/0",
     "x = 6\neval('1+')", "pr int(1)"}

RunnerNext ==
    \/ CodeChatFn
    \/ Plan({[kind |-> "steps", steps |-> q] :
                q \in SeqsUpTo({[tool |-> "code_executor", input |-> i] : i \in RunnerInputs},
                               MaxSteps) \ {<<>>}})
    \/ RouteToTool
    \/ CodeExecutorNode
    \/ NextStepNode
    \/ FormatResponseNode
    \/ RunReturn

RunnerSpec == Init /\ [][RunnerNext]_vars

(***************************************************************************)
(* MasterAgent used directly: constructed with or without a memory, and    *)
(* run called again and again by a caller that passes the state the call   *)
(* before returned.  The plans are one calculator step.                    *)
(***************************************************************************)
\* MasterAgent(memory=..., long_memory=...) and MasterAgent(long_memory=...)
InitDirect ==
    /\ pc = "idle"
    /\ query = None
    /\ document = None
    /\ steps = <<>>
    /\ current_step_index = 0
    /\ results = <<>>
    /\ failed_steps = <<>>
    /\ final_response = None
    /\ reply = None
    /\ memory = <<>>
    /\ facts = <<>>
    /\ rag_chunks = FALSE
    /\ session_namespace = <<>>
    /\ code_log = <<>>
    /\ peer = NotStarted
    /\ memory_arg \in BOOLEAN
    /\ long_memory_arg = TRUE
    /\ exception = None
    /\ planned = <<>>
    /\ service_reply = NoReply
    /\ faulted = {}
    /\ requests = <<>>
    /\ visited = <<>>

\* MasterAgent.run keeping the results and failures the caller's state holds
RunCalledKeepingResults ==
    /\ pc \in {"idle", "returned"}
    /\ Len(facts) < MaxMessages
    /\ query' \in CalcMessages
    /\ document' = ""
    /\ steps' = <<>>
    /\ current_step_index' = 0
    /\ results' = results
    /\ failed_steps' = failed_steps
    /\ final_response' = None
    /\ planned' = <<>>
    /\ service_reply' = NoReply
    /\ faulted' = {}
    /\ requests' = <<>>
    /\ visited' = <<>>
    /\ pc' = "task_planner"
    /\ UNCHANGED <<peer, code_log, reply, memory, facts, rag_chunks, session_namespace,
                   memory_arg, long_memory_arg, exception>>

\* MasterAgent.run up to graph.ainvoke, whatever the state it is called with
\* holds: the graph starts from the query and document of that state and from
\* new, empty steps, results and failed_steps
RunCalled ==
    /\ pc \in {"idle", "returned"}
    /\ Len(facts) < MaxMessages
    /\ query' \in CalcMessages
    /\ document' = ""
    /\ steps' = <<>>
    /\ current_step_index' = 0
    /\ results' = <<>>
    /\ failed_steps' = <<>>
    /\ final_response' = None
    /\ planned' = <<>>
    /\ service_reply' = NoReply
    /\ faulted' = {}
    /\ requests' = <<>>
    /\ visited' = <<>>
    /\ pc' = "task_planner"
    /\ UNCHANGED <<peer, code_log, reply, memory, facts, rag_chunks, session_namespace,
                   memory_arg, long_memory_arg, exception>>

DirectNext ==
    \/ RunCalled
    \/ Plan({[kind |-> "steps", steps |-> <<[tool |-> "calculator", input |-> i]>>] :
                i \in {"", "2+2", "32+64", "previous result + 10"}})
    \/ RouteToTool
    \/ CalculatorNode
    \/ NextStepNode
    \/ FormatResponseNode
    \/ RunReturn

DirectSpec == InitDirect /\ [][DirectNext]_vars

\* the positions of a request
Positions ==
    {"idle", "task_planner", "router", "next_step", "format_response", "end", "raised",
     "returned"} \cup HandlerNodes

\* the request moves on from its position. Every step of Next is such a step,
\* and one is possible wherever the request has not returned.
Leave == pc # "returned" /\ \E n \in Positions : n # pc /\ pc' = n

\* sync_chat_fn runs chat_fn to completion (run_until_complete): the one thread of a
\* request does not stop before the request has returned
FairSpec == Spec /\ WF_pc(Leave)

(***************************************************************************)
(* Properties                                                              *)
(***************************************************************************)
\* the handler nodes run so far, in order
HandlerVisits == SelectSeq(visited, LAMBDA v : v.node \in HandlerNodes)

\* the plan has been executed in full: the router has answered "done"
FullyExecuted == pc \in {"format_response", "end"} \/ (pc = "returned" /\ final_response # None)

FailedPositions == {i \in DOMAIN steps : steps[i].status = "failed"}

HasFailureRecord(i) ==
    \E k \in DOMAIN failed_steps :
        failed_steps[k].step = i /\ failed_steps[k].error = steps[i].result

\* C1: whenever the router is evaluated, results has exactly currentIndex
\* entries and results[i] is the result text of the step at position i; after
\* full execution of a plan of length N, results has N entries and there are as
\* many FailureRecords as steps whose status is failed.
C1_ResultsTrackIndex ==
    /\ pc = "router" =>
        /\ Len(results) = current_step_index
        /\ \A i \in 1..Len(results) : results[i] = steps[i].result
    /\ FullyExecuted =>
        /\ Len(results) = Len(steps)
        /\ Len(failed_steps) = Cardinality(FailedPositions)

C1_Witness ==
    /\ pc = "end"
    /\ Len(steps) = 2
    /\ Len(results) = 2
    /\ Len(failed_steps) = 1

\* C2: a failing step does not stop the plan: every dispatched step contributes
\* exactly one entry to results, whether it succeeded or failed, and when the
\* request is over all N steps of its plan have been dispatched.
C2_EveryStepDispatchedAndRecorded ==
    /\ pc \notin HandlerNodes => Len(results) = Len(HandlerVisits)
    /\ (pc = "returned" /\ Len(steps) > 0) => Len(HandlerVisits) = Len(steps)

\* C3: handlers run for the plan positions 1, 2, ..., N in that order, each
\* position once; currentIndex grows by exactly one after a handler has
\* returned and changes at no other time; and the handler of a position starts
\* only when result and status of all earlier positions are written.
C3_OrderInv ==
    /\ \A j \in 1..Len(HandlerVisits) : HandlerVisits[j].index = j - 1
    /\ pc \in HandlerNodes =>
        /\ Len(HandlerVisits) = current_step_index
        /\ \A j \in 1..current_step_index :
              steps[j].status # "pending" /\ steps[j].result # None
        /\ CurrentStep.status = "pending"
    /\ FullyExecuted => Len(HandlerVisits) = Len(steps)

C3_IndexStep ==
    current_step_index' # current_step_index =>
        /\ pc = "next_step"
        /\ current_step_index' = current_step_index + 1
        /\ visited[Len(visited)].node \in HandlerNodes
        /\ visited[Len(visited)].index = current_step_index
        /\ steps[current_step_index + 1].status # "pending"

C3_StrictPlanOrder == [](C3_OrderInv) /\ [][C3_IndexStep]_vars

C3_Witness ==
    /\ pc \in HandlerNodes
    /\ current_step_index = 1
    /\ steps[1].status = "failed"

\* a plan is being executed: from the first evaluation of the router to the
\* end of the graph
InExecution == pc \in ({"router", "next_step", "format_response", "end"} \cup HandlerNodes)

\* C4: in every state of a plan execution 0 <= currentIndex <= N, and route
\* returns "done" exactly in the states where currentIndex = N.
C4_IndexBoundedDoneAtEnd ==
    InExecution =>
        /\ 0 <= current_step_index
        /\ current_step_index <= Len(steps)
        /\ (_route_to_tool(steps, current_step_index) = "done")
              <=> (current_step_index = Len(steps))

C4_Witness ==
    /\ pc = "router"
    /\ current_step_index = 2
    /\ Len(steps) = 2

\* the tool string of the step at position i as the planner returned it
\* (Missing when the step names no tool)
ReturnedTool(i) == IF Len(planned) > 0 THEN planned[i].tool ELSE "llm"

HandlerOf(tool) ==
    CASE tool = "calculator" -> "execute_calculator"
      [] tool = "code_executor" -> "execute_code"
      [] tool = "web_search" -> "execute_web_search"
      [] tool = "summarizer" -> "execute_summarizer"
      [] OTHER -> "execute_llm"

\* C5: for a step that is not finished, route resolves to one handler:
\* calculator, code_executor, web_search and summarizer to their own handler,
\* every other tool string (llm, the empty string, an unknown name, a missing
\* tool) to the language-model handler.
C5_RouterTotal ==
    /\ (InExecution /\ current_step_index < Len(steps)) =>
          EdgeTarget(_route_to_tool(steps, current_step_index))
              = HandlerOf(ReturnedTool(current_step_index + 1))
    /\ pc \in HandlerNodes => pc = HandlerOf(ReturnedTool(current_step_index + 1))

C5_Witness ==
    /\ pc = "execute_llm"
    /\ current_step_index = 1
    /\ ReturnedTool(2) = Missing
    /\ ReturnedTool(1) = "translator"

\* the nodes a request passes when every handler call returns: task_planner,
\* then for each position its handler and next_step, then format_response
PassedAllStages ==
    LET n == Len(steps)
    IN  /\ n >= 1
        /\ Len(visited) = 2 * n + 2
        /\ visited[1] = [node |-> "task_planner", index |-> 0]
        /\ \A k \in 1..n :
              /\ visited[2 * k] = [node |-> HandlerOf(steps[k].tool), index |-> k - 1]
              /\ visited[2 * k + 1] = [node |-> "next_step", index |-> k - 1]
        /\ visited[2 * n + 2] = [node |-> "format_response", index |-> n]

Done ==
    /\ pc = "returned"
    /\ PassedAllStages
    /\ final_response \notin {None, ""}
    /\ reply = final_response

C7_NoExceptionEscapes == exception = None

\* C8: a calculator step whose expression fails to evaluate (its result text
\* carries the calculator error marker) has status failed and a FailureRecord.
C8_CalculatorErrorFails ==
    \A i \in DOMAIN steps :
        (/\ steps[i].tool = "calculator"
         /\ steps[i].status # "pending"
         /\ Contains(steps[i].result, CalculatorErrorMark))
        => (steps[i].status = "failed" /\ HasFailureRecord(i))

\* C9: when the external service call behind a summarizer, web-search or
\* language-model step fails, the step's status becomes failed, a FailureRecord
\* with the error text is appended, and the plan continues.
C9_ServiceFaultFailsStep ==
    \A i \in faulted :
        (steps[i].tool # "code_executor" /\ pc \notin HandlerNodes)
        => (steps[i].status = "failed" /\ HasFailureRecord(i) /\ exception = None)

\* C10: for each of the five tools, a step whose input is empty is marked
\* failed and recorded as a FailureRecord, and the plan goes on after it.
C10_EmptyInputFails ==
    \A i \in DOMAIN steps :
        (steps[i].input = "" /\ i <= Len(HandlerVisits) /\ pc \notin HandlerNodes)
        => (steps[i].status = "failed" /\ HasFailureRecord(i) /\ exception = None)

(***************************************************************************)
(* Properties of the code runner                                           *)
(***************************************************************************)
\* the namespace a call of CodeAgent.run leaves when it executes its code,
\* and then the fixer's code if it ran twice
NamespaceAfter(e) ==
    IF e.runs = 0 THEN e.before
    ELSE LET once == _run_code_with_namespace(e.code, e.before).ns
         IN  IF e.runs = 1 THEN once ELSE _run_code_with_namespace(e.fixed, once).ns

\* C11: for any code step, whatever the fixer returns and whether or not the
\* corrective execution fails, the code runner calls the fixer at most once and
\* executes code at most twice (the original, and at most one corrected
\* version).
C11_AtMostOneRetry ==
    \A k \in DOMAIN code_log :
        LET e == code_log[k]
        IN  /\ e.fixes \in {0, 1}
            /\ e.runs \in {0, 1, 2}
            /\ e.runs = 2 => e.fixes = 1
            /\ e.after = NamespaceAfter(e)

C11_Witness ==
    \E k \in DOMAIN code_log :
        /\ code_log[k].fixes = 1
        /\ code_log[k].runs = 2
        /\ Contains(code_log[k].second, "Error")
        /\ ~code_log[k].success

\* the code texts that do not parse
DoesNotParse(code) == code \in {"pr int(1)", "LLM error: Connection error."}

\* C12: the code runner calls the fixer for a step if and only if the first
\* execution of the step's code failed with a syntax or indentation error;
\* code that ran without raising, or failed with another error, never
\* triggers the fixer.
C12_FixerOnlyOnSyntaxError ==
    \A k \in DOMAIN code_log :
        (code_log[k].fixes = 1) <=> (code_log[k].runs > 0 /\ DoesNotParse(code_log[k].code))

\* C13: when the corrective execution still fails, or the fixer returns the
\* original code again, the step is failed and its result is the error text of
\* the original execution followed by the note that the auto-fixer failed.
C13_OriginalErrorReported ==
    \A k \in DOMAIN code_log :
        LET e == code_log[k]
        IN  (e.fixes = 1 /\ DoesNotParse(e.code)
             /\ (e.runs = 1 \/ Contains(e.second, "Error")))
            => /\ ~e.success
               /\ e.result = CodeErrorMark \o e.first \o AutoFixFailedNote

\* C14: when the first execution of a code step fails with a syntax error and
\* the fixer returns different code whose execution succeeds (its text holds
\* no "Error"), the step is completed, its result is the auto-fix marker
\* followed by the corrected code's output, and the final response contains
\* that result.
C14_AutoFixSucceeds ==
    \A k \in DOMAIN code_log :
        LET e == code_log[k]
        IN  (/\ DoesNotParse(e.code)
             /\ e.fixes = 1
             /\ e.runs = 2
             /\ ~Contains(e.second, "Error"))
            => /\ e.fixed # e.code
               /\ e.success
               /\ e.result = "Auto-fixed syntax. **Result:**\n" \o e.second
               /\ pc \notin HandlerNodes =>
                    /\ steps[e.step].status = "completed"
                    /\ steps[e.step].result = e.result
               /\ final_response # None => Contains(final_response, e.result)

C14_Witness ==
    /\ pc = "returned"
    /\ \E k \in DOMAIN code_log :
        /\ code_log[k].code = "pr int(1)"
        /\ code_log[k].fixed = "print(1)"
        /\ code_log[k].second = "1"
        /\ Contains(reply, "Auto-fixed syntax. **Result:**\n1")

\* the names a code text assigns or deletes
Writes(code) ==
    CASE code \in {"x = 5", "x = 6", "del x"} -> {"x"}
      [] code = "y = 7\n1/0" -> {"y"}
      [] code = "def f(): f()\nf()" -> {"f"}
      [] OTHER -> {}

LastCall == code_log[Len(code_log)]

C15_Visible ==
    /\ \A k \in DOMAIN code_log :
        /\ k > 1 => code_log[k].before = code_log[k - 1].after
        /\ (code_log[k].code = "print(x)" /\ Has(code_log[k].before, "x"))
              => code_log[k].first = Lookup(code_log[k].before, "x").value
    /\ (Len(code_log) > 0 /\ pc # "execute_code") => session_namespace = LastCall.after

C15_Kept ==
    \A i \in DOMAIN session_namespace :
        \/ \E j \in DOMAIN session_namespace' : session_namespace'[j] = session_namespace[i]
        \/ /\ pc = "execute_code"
           /\ Len(code_log') = Len(code_log) + 1
           /\ session_namespace[i].name
                \in (Writes(code_log'[Len(code_log')].code)
                     \cup IF code_log'[Len(code_log')].runs = 2
                          THEN Writes(code_log'[Len(code_log')].fixed) ELSE {})

\* C15: a binding made by a code step stays visible to every later code step
\* of the same code runner, in the same plan and in later requests, until
\* executed code rebinds or deletes it.
C15_BindingsPersist == [](C15_Visible) /\ [][C15_Kept]_vars

C15_Witness ==
    /\ Len(code_log) = 1
    /\ code_log[1].step = 1
    /\ code_log[1].code = "print(x)"
    /\ code_log[1].first = "6"
    /\ code_log[1].success

\* whether the variable report may show an entry
Qualifies(entry) ==
    /\ SubSeq(entry.name, 1, 1) # "_"
    /\ entry.kind # "function"
    /\ entry.kind \in {"int", "float", "str", "list", "dict", "tuple", "set"}

\* C17: when an execution writes no output, its result is "Variable '<name>'
\* = <value>" for the first entry, in insertion order over the whole
\* namespace, whose name has no leading underscore and whose value is not
\* callable and is a number, text, list, mapping, tuple or set; the fixed
\* sentinel if there is no such entry.
C17_VariableReport ==
    \A k \in DOMAIN code_log :
        LET e == code_log[k]
            ns == e.after
            q == {i \in DOMAIN ns : Qualifies(ns[i])}
        IN  (e.runs = 1 /\ e.code \in {"x = 5", "x = 6", "del x", "2+2"}
             /\ ~Contains(e.first, "NameError"))
            => IF q = {}
               THEN e.first = "(Code executed successfully, no output produced)"
               ELSE \E i \in q :
                      /\ \A j \in q : i <= j
                      /\ e.first = "Variable '" \o ns[i].name \o "' = " \o ns[i].value

C17_Witness ==
    \E k \in DOMAIN code_log :
        /\ code_log[k].code = "x = 5"
        /\ code_log[k].first = "Variable 'y' = 7"
        /\ Has(code_log[k].after, "f")

C18_OnlyCodeRuns ==
    session_namespace' # session_namespace =>
        /\ pc = "execute_code"
        /\ Len(code_log') = Len(code_log) + 1
        /\ code_log'[Len(code_log')].runs > 0
        /\ session_namespace' = NamespaceAfter(code_log'[Len(code_log')])

\* C18: no operation of the engine (a new request, a new session with its
\* clearing of the conversation memory, a failed step, an auto-fix attempt)
\* removes or resets bindings of the execution namespace: it changes only
\* through executed code.
C18_NamespaceFrame == [][C18_OnlyCodeRuns]_vars

C18_Witness ==
    /\ pc = "task_planner"
    /\ memory = <<>>
    /\ Has(session_namespace, "x")
    /\ Has(session_namespace, "y")

(***************************************************************************)
(* Properties of the final response                                        *)
(***************************************************************************)
\* the block of the step at a plan position: the header of its capability,
\* then its result text
BlockOf(i) == ToolHeader(steps[i].tool) \o "\n" \o steps[i].result

\* the texts t(i) of the positions of a set, in plan order, each followed by
\* a separator
RECURSIVE Listed(_, _, _)
Listed(positions, t(_), sep) ==
    IF positions = {} THEN ""
    ELSE LET i == CHOOSE j \in positions : \A k \in positions : j <= k
         IN  t(i) \o sep \o Listed(positions \ {i}, t, sep)

FailedLineOf(k) ==
    "* Step " \o IntToStr(failed_steps[k].step) \o " (" \o failed_steps[k].tool \o "): "
        \o failed_steps[k].error \o (IF k = Len(failed_steps) THEN "" ELSE "\n")

CompletedPositions == {i \in DOMAIN steps : steps[i].status = "completed"}

\* C19: in the partial-failure case (0 < failures < N) the final response is
\* the header stating "X out of N steps completed" with X = N - failures, then
\* the blocks of the successful steps only, then the failed-steps section.
C19_PartialListsSuccessfulOnly ==
    (/\ final_response # None
     /\ Len(failed_steps) > 0
     /\ Len(failed_steps) < Len(steps))
    => final_response =
          "[ok] **Partial Success:** " \o IntToStr(Len(steps) - Len(failed_steps))
              \o " out of " \o IntToStr(Len(steps)) \o " steps completed.\n"
          \o "\n**[ok] Successful Results:**\n"
          \o Listed(CompletedPositions, BlockOf, "\n")
          \o "\n**[x] Failed Steps:**\n"
          \o Listed(DOMAIN failed_steps, FailedLineOf, "")

AllStepsFailed == Len(steps) > 0 /\ \A i \in DOMAIN steps : steps[i].status = "failed"

\* C21: when every step of the plan failed, the final response is the
\* total-failure message with the original request text in it, then the
\* failed-steps section, and it contains the result block of no step.
C21_AllFailedTotalMessage ==
    (final_response # None /\ AllStepsFailed)
    => /\ final_response =
              "[x] **All steps failed** for your request: \"" \o query \o "\"\n"
              \o "\n**[x] Failed Steps:**\n"
              \o Listed(DOMAIN failed_steps, FailedLineOf, "")
       /\ \A i \in DOMAIN steps : ~Contains(final_response, BlockOf(i))

C21_Witness ==
    /\ pc = "end"
    /\ Len(steps) = 2
    /\ AllStepsFailed
    /\ query = "add 2 and 2"
    /\ steps[1].tool # steps[2].tool

\* the failure records of the step at a plan position
RecordsOf(i) == {k \in DOMAIN failed_steps : failed_steps[k].step = i}

\* the line of the failed-steps section for the k-th failure record, its
\* error being the result text of the step the record names
LineOfRecord(k) ==
    "* Step " \o IntToStr(failed_steps[k].step) \o " (" \o failed_steps[k].tool \o "): "
        \o steps[failed_steps[k].step].result \o (IF k = Len(failed_steps) THEN "" ELSE "\n")

C22_OneRecordPerFailedStep ==
    /\ \A k \in DOMAIN failed_steps :
          /\ failed_steps[k].step \in DOMAIN steps
          /\ steps[failed_steps[k].step].status = "failed"
          /\ failed_steps[k].error = steps[failed_steps[k].step].result
    /\ \A i \in DOMAIN steps :
          steps[i].status = "failed" => Cardinality(RecordsOf(i)) = 1
    /\ \A k, l \in DOMAIN failed_steps :
          k < l => failed_steps[k].step < failed_steps[l].step

C22_SectionListsRecords ==
    (final_response # None /\ Len(failed_steps) > 0)
    => EndsWith(final_response,
                "\n**[x] Failed Steps:**\n" \o Listed(DOMAIN failed_steps, LineOfRecord, ""))

C22_AppendOnly ==
    /\ Len(failed_steps') \in {Len(failed_steps), Len(failed_steps) + 1}
    /\ SubSeq(failed_steps', 1, Len(failed_steps)) = failed_steps

\* C22: the failures list only ever grows at its end and holds exactly one
\* record per failed step, with strictly increasing 1-based step numbers; the
\* failed-steps section of the final response is one line
\* "Step <n> (<tool>): <error>" per record, in the order of the list, <error>
\* being the failed step's result text.
C22_FailuresListedInOrder ==
    /\ [](C22_OneRecordPerFailedStep /\ C22_SectionListsRecords)
    /\ [][C22_AppendOnly]_vars

C22_Witness ==
    /\ pc = "returned"
    /\ Len(failed_steps) = 2
    /\ failed_steps[1].tool = "code_executor"
    /\ failed_steps[2].tool = "summarizer"
    /\ final_response # None

BlockThen(i) == BlockOf(i) \o (IF i = Len(steps) THEN "" ELSE "\n\n")

\* C20: when no step failed, the final response is exactly the blocks (the
\* header naming the capability, then the step's result) of all N steps in
\* plan order, joined by a blank line, with no failure section; for N = 1 it
\* is the single block alone.
C20_NoFailureJoinsBlocks ==
    (final_response # None /\ Len(failed_steps) = 0)
    => /\ final_response = Listed(DOMAIN steps, BlockThen, "")
       /\ Len(steps) = 1 => final_response = BlockOf(1)
       /\ ~Contains(final_response, "Failed Steps")

C20_Witness ==
    /\ pc = "end"
    /\ Len(steps) = 2
    /\ Len(failed_steps) = 0
    /\ steps[1].tool = "web_search"
    /\ steps[2].tool = "calculator"

(***************************************************************************)
(* Properties of two executions at a time                                  *)
(***************************************************************************)
\* the calls of CodeAgent.run before the k-th that bound x, of either
\* execution
BoundXBefore(k) == {j \in 1..(k - 1) : code_log[j].code = "x = 5"}

\* C16: two executions that run at the same time on one MasterAgent work on
\* one namespace: a code step starts from what the latest code step of either
\* execution left, and reads the binding the other execution made.
C16_ExecutionsShareNamespace ==
    \A k \in DOMAIN code_log :
        /\ k > 1 => code_log[k].before = code_log[k - 1].after
        /\ (code_log[k].code = "print(x)" /\ BoundXBefore(k) # {})
              => /\ code_log[k].success
                 /\ code_log[k].first = "5"

C16_Witness ==
    /\ pc \notin {"idle", "returned"}
    /\ peer.pc \notin {"idle", "returned"}
    /\ \E k \in DOMAIN code_log :
        /\ code_log[k].code = "print(x)"
        /\ code_log[k].first = "5"
        /\ BoundXBefore(k) # {}
        /\ \A j \in BoundXBefore(k) : code_log[j].run # code_log[k].run

(***************************************************************************)
(* Properties of the plan                                                  *)
(***************************************************************************)
\* the single-step plan that sends the raw request to the language model
FallbackPlan(q) == <<[tool |-> "llm", input |-> q, status |-> "pending", result |-> None]>>

\* a reply of the planning service that gives no usable plan: the call
\* raised, the completion is no step list, or the step list is empty
Unusable(r) == r.kind \in {"raise", "other"} \/ r.steps = <<>>

\* the task_planner node runs and TaskPlannerAgent.run got the reply r
PlannedWith(r) ==
    /\ pc = "task_planner"
    /\ pc' = "router"
    /\ planned' = TaskPlannerRun(query, r)

C23_FallbackStep ==
    /\ \A r \in PlannerReplies : (Unusable(r) /\ PlannedWith(r)) => steps' = FallbackPlan(query)
    /\ (pc = "task_planner" /\ pc' = "router" /\ planned' = <<>>) => steps' = FallbackPlan(query)

\* C23: whenever the planner yields no usable plan (the planning call raises,
\* its response cannot be parsed, or the step list is empty or missing) the
\* executed plan is the single step with tool "llm" and the raw original
\* request as input; so every executed plan has at least one step.
C23_FallbackToSingleLlmStep ==
    /\ [][C23_FallbackStep]_vars
    /\ [](pc \notin {"idle", "task_planner"} /\ query # None => Len(steps) >= 1)

C23_Witness ==
    /\ pc = "execute_llm"
    /\ planned = <<>>
    /\ query = ""
    /\ steps = FallbackPlan("")

\* what one step of an execution does to the plan: its length, tools and
\* inputs stay; a step that is no longer pending stays as it is; a status
\* changes only from pending to completed or failed, in the handler of the
\* step at the index; a handler that finishes adds one result entry
C24_PlanStep ==
    pc \notin {"idle", "task_planner"} =>
        /\ Len(steps') = Len(steps)
        /\ \A i \in DOMAIN steps :
              /\ steps'[i].tool = steps[i].tool
              /\ steps'[i].input = steps[i].input
              /\ steps[i].status # "pending" => steps'[i] = steps[i]
              /\ steps'[i] # steps[i] =>
                    /\ pc \in HandlerNodes
                    /\ i = current_step_index + 1
                    /\ steps[i].status = "pending"
                    /\ steps'[i].status \in {"completed", "failed"}
        /\ Len(results') = Len(results) + (IF steps' # steps THEN 1 ELSE 0)

\* the call of the code runner just made, with a corrective attempt or not,
\* is one step's one result and one status change
C24_RetryInvisible ==
    (pc = "execute_code" /\ pc' = "next_step") =>
        /\ Len(steps') = Len(steps)
        /\ Len(results') = Len(results) + 1
        /\ steps'[current_step_index + 1].status # "pending"
        /\ steps'[current_step_index + 1].result = results'[Len(results')]
        /\ Len(code_log') = Len(code_log) + 1

\* C24: during execution the plan's length and each step's tool and input
\* never change; each step's status changes once, from pending to completed
\* or failed when its handler finishes, and status and result stay after
\* that; the code runner's corrective attempt adds no step, no second result
\* entry and no second status change.
C24_PlanFixedStatusSetOnce ==
    /\ [][C24_PlanStep /\ C24_RetryInvisible]_vars
    /\ [](pc \in {"format_response", "end"}
             => \A i \in DOMAIN steps : steps[i].status \in {"completed", "failed"})

C24_Witness ==
    /\ pc = "router"
    /\ Len(steps) = 2
    /\ current_step_index = 2
    /\ Len(results) = 2
    /\ \E k \in DOMAIN code_log : code_log[k].step = 1 /\ code_log[k].runs = 2
    /\ steps[1].status = "completed"
    /\ steps[2].status = "failed"

(***************************************************************************)
(* Properties of the memories                                              *)
(***************************************************************************)
\* the step a handler node has just finished
Finished == steps'[current_step_index + 1]

C25_HandlerStep ==
    (pc \in HandlerNodes /\ pc' = "next_step") =>
        IF pc \in {"execute_calculator", "execute_llm"} /\ Finished.status = "completed"
        THEN /\ memory' = Append(memory, <<Finished.input, Finished.result>>)
             /\ facts' = Append(facts, [input |-> Finished.input, result |-> Finished.result])
        ELSE /\ memory' = memory
             /\ facts' = facts

\* C25: conversation memory and the long-term fact store get the entry (step
\* input, step result) of a calculator or language-model step only when the
\* step's call succeeded; a failed step and a step of the other three tools
\* add no entry.
C25_MemoryOnlyOnSuccess == [][C25_HandlerStep]_vars

(***************************************************************************)
(* Properties of the calculator                                            *)
(***************************************************************************)
\* the calculator handler has just finished the step at the index
JustCalculated == pc = "next_step" /\ CurrentStep.tool = "calculator"

\* the conversation memory the calculator read: all but the entry the
\* handler added for the step itself
Before == SubSeq(memory, 1, Len(memory) - 1)

\* the result text of the latest calculation the engine recorded before the
\* step: the entry before the turn MasterAgent.run added for its request
LastCalculation == IF Len(Before) >= 2 THEN Before[Len(Before) - 1][2] ELSE ""

\* C26: with a conversation memory whose most recent calculation produced
\* 185.407089, the calculator input "add 10 to the previous result" is
\* resolved with the full-precision value: the expression evaluated is
\* 185.407089+10 and the step result is "185.407089+10 = 195.407089".
C26_FullPrecisionSubstitution ==
    (/\ JustCalculated
     /\ CurrentStep.input = "add 10 to the previous result"
     /\ EndsWith(LastCalculation, " = 185.407089"))
    => CurrentStep.result = "185.407089+10 = 195.407089"

\* the phrases of a context reference, in the order of their substitution
PhraseOrder == <<"previous result", "last result", "result", "answer">>

\* every occurrence of the first phrase replaced by the token, then every
\* occurrence of the second one, and so on
RECURSIVE SubstituteInOrder(_, _, _)
SubstituteInOrder(e, phrases, token) ==
    IF phrases = <<>> THEN e
    ELSE SubstituteInOrder(Replace(e, Head(phrases), token), Tail(phrases), token)

\* the numeric token resolution extracts from the memory the calculator
\* read: the first number of the latest candidate line, "" without one
ExtractedToken ==
    LET lines == SplitLines(get_recent(Before, RecentTurns))
        hits == {i \in DOMAIN lines : IsCandidateLine(lines[i])}
    IN  IF Before = <<>> \/ hits = {} THEN ""
        ELSE FirstNumber(lines[CHOOSE i \in hits : \A j \in hits : j <= i])

\* the step's input refers to the context and the memory holds a token
Resolved ==
    /\ JustCalculated
    /\ \E w \in ContextWords : Contains(ToLower(CurrentStep.input), w)
    /\ ExtractedToken # ""

Substituted == SubstituteInOrder(ToLower(CurrentStep.input), PhraseOrder, ExtractedToken)

\* C27: context substitution replaces "previous result", then "last result",
\* then "result", then "answer", each pass replacing all occurrences of its
\* phrase by the extracted numeric token before the next phrase is looked at:
\* the expression evaluated is the outcome of the four passes in that order,
\* and an expression with "previous result" in it has the token in place of
\* the whole phrase, no word "previous" left over.
C27_SubstitutionOrder ==
    Resolved
    => /\ CurrentStep.result = _evaluate_expression(Substituted)
       /\ ~Contains(Substituted, "result")
       /\ ~Contains(Substituted, "answer")
       /\ Contains(ToLower(CurrentStep.input), "previous result")
             => /\ Contains(Substituted, ExtractedToken)
                /\ ~Contains(Substituted, "previous")
       /\ (CurrentStep.input = "previous result + 10" /\ ExtractedToken = "175.407089")
             => CurrentStep.result = "175.407089+10 = 185.407089"
       /\ (CurrentStep.input = "answer - previous result" /\ ExtractedToken = "2")
             => CurrentStep.result = "2-2 = 0"

C27_Witness ==
    /\ Resolved
    /\ CurrentStep.input = "previous result + 10"
    /\ ExtractedToken = "175.407089"
    /\ CurrentStep.result = "175.407089+10 = 185.407089"

\* the expression the calculator evaluates for the step: the input, or the
\* input with the context phrases replaced, without whitespace and with the
\* operator words rewritten
NormalizedExpression ==
    LET e == IF Resolved THEN Substituted ELSE CurrentStep.input
    IN  ReplaceIgnoreCase(
            ReplaceIgnoreCase(
                ReplaceIgnoreCase(
                    ReplaceIgnoreCase(RemoveSpaces(Strip(e)), "add", "+"),
                    "subtract", "-"),
                "multiply", "*"),
            "divide", "/")

\* a formatted result: an integer, or digits, a point and one to six
\* decimals the last of which is not 0
WellFormatted(v) ==
    LET body == IF StartsWith(v, "-") THEN SubSeq(v, 2, Len(v)) ELSE v
        p == CHOOSE i \in Points(body) : TRUE
        decimals == SubSeq(body, p + 1, Len(body))
    IN  IF Points(body) = {} THEN IsDigits(body)
        ELSE /\ Cardinality(Points(body)) = 1
             /\ IsDigits(SubSeq(body, 1, p - 1))
             /\ IsDigits(decimals)
             /\ Len(decimals) <= FloatPlaces
             /\ ~EndsWith(decimals, "0")

\* the step result is "<normalized-expression> = <formatted-result>"
ExpressionEqualsValue ==
    /\ StartsWith(CurrentStep.result, NormalizedExpression \o " = ")
    /\ WellFormatted(SubSeq(CurrentStep.result, Len(NormalizedExpression) + 4,
                            Len(CurrentStep.result)))

\* the result texts of the expressions that refer to no context
ExpectedResults ==
    [e \in {"2+2", "32+64", "175.407089+10", "3/2", "6/2", "1/3", "3.0", "10 divide 4"} |->
        CASE e = "2+2" -> "2+2 = 4"
          [] e = "32+64" -> "32+64 = 96"
          [] e = "175.407089+10" -> "175.407089+10 = 185.407089"
          [] e = "3/2" -> "3/2 = 1.5"
          [] e = "6/2" -> "6/2 = 3"
          [] e = "1/3" -> "1/3 = 0.333333"
          [] e = "3.0" -> "3.0 = 3"
          [] e = "10 divide 4" -> "10/4 = 2.5"]

\* C28 as stated: the calculator's output text is always
\* "<normalized-expression> = <formatted-result>".
C28_AlwaysExpressionEqualsValue == JustCalculated => ExpressionEqualsValue

\* C28, for the expressions that evaluate: the output text is
\* "<normalized-expression> = <formatted-result>", a float result formatted
\* to six decimal places with the trailing zeros and then a trailing point
\* stripped (3.0 gives "3", 1.5 gives "1.5"), an integer result printed as a
\* plain integer; an expression that does not evaluate gives the calculator
\* error text instead.
C28_FormattedWhenEvaluated ==
    JustCalculated
    => /\ IF PyEval(NormalizedExpression).ok THEN ExpressionEqualsValue
          ELSE StartsWith(CurrentStep.result, CalculatorErrorMark)
       /\ CurrentStep.input \in DOMAIN ExpectedResults
             => CurrentStep.result = ExpectedResults[CurrentStep.input]

C28_Witness ==
    /\ JustCalculated
    /\ CurrentStep.input = "6/2"
    /\ CurrentStep.result = "6/2 = 3"
    /\ Len(memory) = 3
    /\ memory[1][2] = "3/2 = 1.5"

\* well-formed arithmetic expressions and their values
ValueOf == [e \in {"2+2", "32+64"} |-> IF e = "2+2" THEN "4" ELSE "96"]

\* the request's plan is one calculator step with a well-formed expression
\* and the request has its final response
SingleCalculation ==
    /\ final_response # None
    /\ Len(steps) = 1
    /\ steps[1].tool = "calculator"
    /\ steps[1].input \in DOMAIN ValueOf

\* C29: a plan of one calculator step with a well-formed arithmetic
\* expression (2+2, 32+64) ends with the step completed, the step result
\* holding the value of the expression, no failure record, and a final
\* response that contains the value.
C29_SingleCalculationEndToEnd ==
    SingleCalculation
    => /\ steps[1].status = "completed"
       /\ steps[1].result = steps[1].input \o " = " \o ValueOf[steps[1].input]
       /\ results = <<steps[1].result>>
       /\ failed_steps = <<>>
       /\ final_response = "## Calculator Agent:\n" \o steps[1].result
       /\ EndsWith(final_response, " = " \o ValueOf[steps[1].input])
       /\ pc = "returned" => reply = final_response

C29_Witness ==
    /\ pc = "returned"
    /\ SingleCalculation
    /\ steps[1].input = "32+64"
    /\ Contains(reply, "96")

(***************************************************************************)
(* Properties of the code runner's error classes                           *)
(***************************************************************************)
RecursionMark == "Recursion error:"

\* the last execution of a call of the code runner ended with the
\* depth-exceeded (recursion) error
EndedInRecursion(e) ==
    IF e.runs = 2 THEN Contains(e.second, RecursionMark) ELSE Contains(e.first, RecursionMark)

\* C30: a code step whose execution, the original one or the corrective one,
\* ends with a depth-exceeded (recursion) error is a failure like any other
\* execution error: the call reports no success (so no auto-fix either), the
\* step is marked failed and a failure record is appended.
C30_RecursionErrorFails ==
    \A k \in DOMAIN code_log :
        EndedInRecursion(code_log[k])
        => /\ ~code_log[k].success
           /\ ~StartsWith(code_log[k].result, AutoFixMark)
           /\ steps[code_log[k].step].status = "failed"
           /\ HasFailureRecord(code_log[k].step)

(***************************************************************************)
(* Properties of context resolution over several earlier calculations      *)
(***************************************************************************)
\* the lines of the memory the calculator read
LinesRead == IF Before = <<>> THEN <<>> ELSE SplitLines(get_recent(Before, RecentTurns))

\* a line of an assistant turn that holds "=" or a result marker
Marked(line) ==
    /\ Contains(line, "AI:")
    /\ \E mark \in {"Calculator Result:", "Final Result:", "="} : Contains(line, mark)

MarkedLines == {i \in DOMAIN LinesRead : Marked(LinesRead[i])}

\* the most recent of them
NewestMarked == LinesRead[CHOOSE i \in MarkedLines : \A j \in MarkedLines : j <= i]

\* the first numeric token found going from line k back to the first line,
\* over the marked lines; "" when none of them holds a number
RECURSIVE ScanBack(_, _)
ScanBack(lines, k) ==
    IF k = 0 THEN ""
    ELSE IF Marked(lines[k]) /\ FirstNumber(lines[k]) # "" THEN FirstNumber(lines[k])
    ELSE ScanBack(lines, k - 1)

\* the calculator has just finished a step whose input has a trigger word
Refers == JustCalculated /\ \E w \in ContextWords : Contains(ToLower(CurrentStep.input), w)

\* the result of the step when token is what resolution substitutes
ResultWith(token) ==
    _evaluate_expression(SubstituteInOrder(ToLower(CurrentStep.input), PhraseOrder, token))

\* the results of the calculations made before the step, oldest first
Earlier == [i \in 1..(Len(Before) \div 2) |-> Before[2 * i - 1][2]]

C32_AtMostOneRequestPerStep ==
    \A k \in DOMAIN requests :
        requests[k].tool # "code_executor" => requests[k].calls <= 1

(***************************************************************************)
(* Properties of the code runner's result text                             *)
(***************************************************************************)
\* the namespace the original code of a logged call left to the corrective
\* execution
Between(e) == _run_code_with_namespace(e.code, e.before).ns

\* the executions of a logged call: what the interpreter did (the text
\* written, the exception), the namespace afterwards and the result text
Executions(e) ==
    (IF e.runs >= 1
     THEN {[did |-> PyProgram(e.code, e.before), ns |-> Between(e), text |-> e.first]}
     ELSE {})
    \cup (IF e.runs = 2
          THEN {[did |-> PyProgram(e.fixed, Between(e)), ns |-> e.after, text |-> e.second]}
          ELSE {})

AllExecutions == UNION {Executions(code_log[k]) : k \in DOMAIN code_log}

\* the text is the outcome of implicit-result extraction
Extracted(text) == StartsWith(text, "Variable '") \/ text = NoOutputText

RanToCompletion(e) == e.runs >= 1 /\ PyProgram(e.code, e.before).exc = ""

\* C34: a code step whose code runs to completion without raising any error
\* is marked completed and adds no failure record, whatever text the code
\* prints or binds, output with the word "Error" in it included.
C34_CompletedWhenNothingRaised ==
    \A k \in DOMAIN code_log :
        RanToCompletion(code_log[k])
        => /\ steps[code_log[k].step].status = "completed"
           /\ \A j \in DOMAIN failed_steps : failed_steps[j].step # code_log[k].step

(***************************************************************************)
(* Properties of the namespace after failed and corrective executions     *)
(***************************************************************************)
\* the bindings of a namespace that code made: all but the __builtins__
\* entry exec itself puts in
Bindings(ns) == SelectSeq(ns, LAMBDA b : b.name # "__builtins__")

\* C35: a code step that ends with status failed leaves the execution
\* namespace as it was before the step: no binding made by the failed
\* execution, original or corrective, is visible to later code steps.
C35_FailedStepLeavesNamespace ==
    \A k \in DOMAIN code_log :
        ~code_log[k].success => Bindings(code_log[k].after) = Bindings(code_log[k].before)

\* C36: within one code step the namespace receives the effects of at most
\* one execution: whenever the corrective code is executed, the original code
\* has made no binding or other change in the namespace.
C36_OneExecutionPerStep ==
    \A k \in DOMAIN code_log :
        code_log[k].runs = 2 => Bindings(Between(code_log[k])) = Bindings(code_log[k].before)

(***************************************************************************)
(* Properties of the tool names of the failure records                     *)
(***************************************************************************)
\* C37: for every failed step, the tool named in its failure record and in
\* its line of the failed-steps section is the tool string of the plan step
\* at that position, the name the step's block header is made from, also when
\* that string is none of the five known names.
C37_FailureNamesPlanTool ==
    \A k \in DOMAIN failed_steps :
        LET i == failed_steps[k].step
        IN  /\ failed_steps[k].tool = steps[i].tool
            /\ (pc \in {"end", "returned"} /\ final_response # None)
                  => Contains(final_response,
                              "* Step " \o IntToStr(i) \o " (" \o steps[i].tool \o "): ")

(***************************************************************************)
(* Properties of MasterAgent used directly                                 *)
(***************************************************************************)
\* C38: however MasterAgent was constructed, with a memory argument or
\* without one, the memory the calculator scans is the memory the engine
\* appends the step inputs and results and the final responses to: a
\* calculator step with a trigger word is resolved with the number an earlier
\* request left in that memory.
C38_CalculatorReadsEngineMemory ==
    (Refers /\ ScanBack(LinesRead, Len(LinesRead)) # "")
    => CurrentStep.result = ResultWith(ScanBack(LinesRead, Len(LinesRead)))

\* the results, the failure records and the final response are made of the
\* steps of the plan of the call in progress
OfThisPlan ==
    /\ Len(results) <= Len(steps)
    /\ \A i \in DOMAIN results : results[i] = steps[i].result
    /\ \A k \in DOMAIN failed_steps :
          /\ failed_steps[k].step \in DOMAIN results
          /\ failed_steps[k].error = steps[failed_steps[k].step].result
          /\ steps[failed_steps[k].step].status = "failed"
    /\ (pc \in {"end", "returned"} /\ final_response # None)
          => final_response = FormatResponse(query, steps, failed_steps)
    /\ (pc = "returned" /\ steps = <<[tool |-> "calculator", input |-> "2+2",
                                      status |-> "completed", result |-> "2+2 = 4"]>>)
          => final_response = "## Calculator Agent:\n2+2 = 4"

\* a call of MasterAgent.run begins with nothing of the state it was given
\* but the query and the document
StartsEmpty ==
    (pc \in {"idle", "returned"} /\ pc' = "task_planner")
    => /\ steps' = <<>>
       /\ current_step_index' = 0
       /\ results' = <<>>
       /\ failed_steps' = <<>>

\* C39: every call of MasterAgent.run starts from index 0 with an empty
\* plan, empty results and empty failures, whatever the caller's state
\* holds, so that no result and no failure record of an earlier request
\* appears in the results, the failures or the final response of a later one.
C39_EveryRunStartsEmpty == [](OfThisPlan) /\ [][StartsEmpty]_vars

\* a second call has returned the result of its one successful step, the
\* call before it having ended with a failure record
C39_Witness ==
    /\ pc = "returned"
    /\ Len(memory) = 4
    /\ Contains(memory[2][2], "All steps failed")
    /\ results = <<"2+2 = 4">>
    /\ failed_steps = <<>>
    /\ final_response = "## Calculator Agent:\n2+2 = 4"

(***************************************************************************)
(* Properties of the planner's post-processing                             *)
(***************************************************************************)
\* the planning service returned a step list and the planner has handed its
\* plan to the engine
Handed == service_reply.kind = "steps" /\ service_reply.steps # <<>> /\ pc # "task_planner"

\* C40: the plan the planner hands to the engine has the steps in the order
\* and in the number the planning service returned them: the planner changes
\* step inputs (the fences of code) and the retrieval flag only, and moves,
\* merges or drops no step.
C40_PlanKeepsOrderAndNumber ==
    Handed
    => /\ Len(planned) = Len(service_reply.steps)
       /\ Len(steps) = Len(service_reply.steps)
       /\ \A i \in DOMAIN service_reply.steps :
             i \in DOMAIN planned
             => /\ planned[i].tool = service_reply.steps[i].tool
                /\ planned[i].input = IF planned[i].tool = "code_executor"
                                      THEN _extract_code(service_reply.steps[i].input)
                                      ELSE service_reply.steps[i].input

=============================================================================
